---- MODULE Spec2Model ----
(***************************************************************************)
(* Verification model of DrawCkt.                                          *)
(*                                                                         *)
(*   SpecMerge      Renderer::merge_lines (drawckt/src/renderer.rs), the   *)
(*                  line-merge engine, as the loop it is: one action per   *)
(*                  step of the outer `for i`, the `loop` and the inner    *)
(*                  `for j`.                                               *)
(*   SpecTransform  GroupTransform (drawrs/src/transform.rs), the          *)
(*                  orientation transform engine.                          *)
(*   SpecRender     Renderer (drawckt/src/renderer.rs): a schematic is put *)
(*                  together and render_schematic_file, render_symbols_file*)
(*                  or update_style runs on it; render_schematic_file goes *)
(*                  an instance and a net at a step; render_shape of a     *)
(*                  polygon.                                               *)
(*   SpecUnion      BoundingBox::union (drawrs/src/transform.rs).          *)
(*   SpecTree       BinaryNodeObject (drawrs/src/diagram_types/            *)
(*                  binary_tree.rs): set_left and set_right on nodes that  *)
(*                  the caller holds.                                      *)
(*                                                                         *)
(* A point [OrderedFloat<f64>; 2] is compared by merge_lines for equality  *)
(* only, so a point is modelled by an identifier 1..NumPoints: different   *)
(* identifiers are different coordinate pairs.                             *)
(***************************************************************************)
EXTENDS Integers, Sequences, FiniteSets, TLC

VARIABLES
    \* ---- merge_lines ----
    pc,                 \* "build", "outer", "scan", "done" ("idle": not in use)
    lines,              \* the argument `lines`
    processed,          \* `processed`
    merged,             \* `merged`
    i,                  \* outer loop index (1-based)
    j,                  \* inner loop index (1-based)
    current_line,       \* `current_line`
    merged_this_round,  \* `merged_this_round`
    fusions,            \* history: the shared point of every merge made, in order
    rounds,             \* history: the rounds of `loop` begun for the chain of i
    \* ---- GroupTransform ----
    tpc,                \* "ready", "returned", "returned twice"; "static" for a
                        \* function of no GroupTransform ("idle": not in use)
    orient,             \* self.orient
    offset,             \* <<self.offset_x, self.offset_y>>
    inst_name,          \* self.inst_name
    cell_name,          \* self.cell_name
    op,                 \* the operation called last
    arg,                \* its argument
    result,             \* what it returned
    \* ---- Renderer ----
    rpc,                \* "build", "instances", "wires", "returned"
                        \* ("idle": not in use)
    layer_styles,       \* self.layer_styles (its layer_order)
    symbols_content,    \* the argument `symbols_content`, in the order of the IndexMap
    instances,          \* self.schematic.instances
    wires,              \* self.schematic.wires
    symbol_pages,       \* `symbol_pages`
    schematic_page,     \* the objects of `schematic_page`
    cursor,             \* position of the running loop (1-based)
    wires_by_net,       \* `wires_by_net`: the nets not yet iterated
    wire_counter,       \* `wire_counter`
    calls,              \* history: what every call of new_obj returned, in order
    render_op,          \* the operation called
    render_arg,         \* its argument, when it has one
    output,             \* what it returned
    \* ---- BinaryNodeObject ----
    tree_pc,            \* "ready", "panicked" ("idle": not in use)
    tree_children,      \* tree_children of every node: <<left, right>>
    tree_parent,        \* tree_parent.upgrade() of every node
    tree_call,          \* the call made last, and the child its slot had
    tree_result         \* what it returned

mergeVars == <<pc, lines, processed, merged, i, j, current_line, merged_this_round, fusions,
              rounds>>
transformVars == <<tpc, orient, offset, inst_name, cell_name, op, arg, result>>
renderVars == <<rpc, layer_styles, symbols_content, instances, wires, symbol_pages,
                schematic_page, cursor, wires_by_net, wire_counter, calls, render_op,
                render_arg, output>>
treeVars == <<tree_pc, tree_children, tree_parent, tree_call, tree_result>>
vars == <<mergeVars, transformVars, renderVars, treeVars>>

-----------------------------------------------------------------------------
(* Bounds of the model *)

NumPoints == 4      \* distinct coordinate pairs
MaxLines == 3       \* polylines in the input list
MaxTotal == 6       \* points in the input list, all polylines together
MaxCoord == 1       \* coordinates of the objects handed to GroupTransform
MaxHalfSize == 1    \* half the width or height of a bounding box

-----------------------------------------------------------------------------
(* Sequences *)

Reverse(s) == [k \in 1..Len(s) |-> s[Len(s) + 1 - k]]

\* Vec::pop on a non-empty vector: all but the last element
Pop(s) == SubSeq(s, 1, Len(s) - 1)

First(s) == s[1]
Last(s) == s[Len(s)]

RECURSIVE SumLen(_)
SumLen(ls) == IF ls = <<>> THEN 0 ELSE Len(Head(ls)) + SumLen(Tail(ls))

PointsOf(ls) == UNION {{ls[a][b] : b \in 1..Len(ls[a])} : a \in 1..Len(ls)}

MaxOf(S) == IF S = {} THEN 0 ELSE CHOOSE m \in S : \A n \in S : n <= m

-----------------------------------------------------------------------------
(* merge_lines: the body of the inner `for j` loop *)

\* the four share_* flags
share_start_start(cur, other) == First(cur) = First(other)
share_start_end(cur, other) == First(cur) = Last(other)
share_end_start(cur, other) == Last(cur) = First(other)
share_end_end(cur, other) == Last(cur) = Last(other)

SharesEndpoint(cur, other) ==
    \/ share_start_start(cur, other)
    \/ share_start_end(cur, other)
    \/ share_end_start(cur, other)
    \/ share_end_end(cur, other)

\* `shared_point`: decided by the first flag that holds
shared_point(cur, other) ==
    IF share_start_start(cur, other) THEN First(cur)
    ELSE IF share_start_end(cur, other) THEN First(cur)
    ELSE IF share_end_start(cur, other) THEN Last(cur)
    ELSE Last(cur)

Touches(line, p) == line # <<>> /\ (First(line) = p \/ Last(line) = p)

\* `connection_count`: the unprocessed lines other than i and j, and the
\* chains already pushed to `merged`, that have `shared` as an endpoint
connection_count(L, proc, mrg, ii, jj, shared) ==
    Cardinality({k \in 1..Len(L) : k # ii /\ k # jj /\ ~proc[k] /\ Touches(L[k], shared)})
    + Cardinality({m \in 1..Len(mrg) : Touches(mrg[m], shared)})

\* the four branches that build `new_points`
MergeStartStart(cur, other) == Pop(Reverse(cur)) \o other
MergeStartEnd(cur, other) == Reverse(Pop(other)) \o cur
\* mutant: the duplicate of the shared point is kept
MergeEndStartKeepsDuplicate(cur, other) == cur \o other
MergeEndStart(cur, other) == Pop(cur) \o other
MergeEndEnd(cur, other) == Pop(cur) \o Reverse(other)

new_points(cur, other) ==
    IF share_start_start(cur, other) THEN MergeStartStart(cur, other)
    ELSE IF share_start_end(cur, other) THEN MergeStartEnd(cur, other)
    ELSE IF share_end_start(cur, other) THEN MergeEndStart(cur, other)
    ELSE MergeEndEnd(cur, other)

\* does iteration j of the inner loop merge lines[j] into the chain?
Fuses(L, proc, mrg, ii, jj, cur) ==
    /\ ii # jj
    /\ ~proc[jj]
    /\ L[jj] # <<>>
    /\ SharesEndpoint(cur, L[jj])
    /\ connection_count(L, proc, mrg, ii, jj, shared_point(cur, L[jj])) = 0

\* mutant: the line fused into the chain is not marked processed
ScanBody_LeavesUnmarked(L, proc, mrg, ii, jj, cur) ==
    IF Fuses(L, proc, mrg, ii, jj, cur)
    THEN [current_line |-> new_points(cur, L[jj]), processed |-> proc, hit |-> TRUE]
    ELSE [current_line |-> cur, processed |-> proc, hit |-> FALSE]

\* one iteration of `for j in 0..lines.len()`
ScanBody(L, proc, mrg, ii, jj, cur) ==
    IF Fuses(L, proc, mrg, ii, jj, cur)
    THEN [current_line |-> new_points(cur, L[jj]),
          processed |-> [proc EXCEPT ![jj] = TRUE],
          hit |-> TRUE]
    ELSE [current_line |-> cur, processed |-> proc, hit |-> FALSE]

-----------------------------------------------------------------------------
(* merge_lines as a function of its argument *)

RECURSIVE ScanFrom(_, _, _, _, _, _, _)
ScanFrom(L, proc, mrg, ii, cur, mtr, jj) ==
    IF jj > Len(L) THEN [current_line |-> cur, processed |-> proc, hit |-> mtr]
    ELSE LET r == ScanBody(L, proc, mrg, ii, jj, cur)
         IN  ScanFrom(L, r.processed, mrg, ii, r.current_line, mtr \/ r.hit, jj + 1)

\* the `loop { ... if !merged_this_round { break } }` around the scan
RECURSIVE ChainLoop(_, _, _, _, _)
ChainLoop(L, proc, mrg, ii, cur) ==
    LET r == ScanFrom(L, proc, mrg, ii, cur, FALSE, 1)
    IN  IF r.hit THEN ChainLoop(L, r.processed, mrg, ii, r.current_line) ELSE r

RECURSIVE OuterFrom(_, _, _, _)
OuterFrom(L, proc, mrg, ii) ==
    IF ii > Len(L) THEN mrg
    ELSE IF proc[ii] THEN OuterFrom(L, proc, mrg, ii + 1)
    ELSE IF L[ii] = <<>> THEN OuterFrom(L, [proc EXCEPT ![ii] = TRUE], mrg, ii + 1)
    ELSE LET r == ChainLoop(L, proc, mrg, ii, L[ii])
         IN  OuterFrom(L, [r.processed EXCEPT ![ii] = TRUE],
                       Append(mrg, r.current_line), ii + 1)

merge_lines(L) ==
    IF L = <<>> THEN <<>>
    ELSE OuterFrom(L, [k \in 1..Len(L) |-> FALSE], <<>>, 1)

-----------------------------------------------------------------------------
(* merge_lines as a state machine *)

MergeIdle ==
    /\ pc = "idle"
    /\ lines = <<>>
    /\ processed = <<>>
    /\ merged = <<>>
    /\ i = 0
    /\ j = 0
    /\ current_line = <<>>
    /\ merged_this_round = FALSE
    /\ fusions = <<>>
    /\ rounds = 0

TransformIdle ==
    /\ tpc = "idle"
    /\ orient = "R0"
    /\ offset = <<0, 0>>
    /\ inst_name = <<>>
    /\ cell_name = <<>>
    /\ op = "none"
    /\ arg = <<>>
    /\ result = <<>>

RenderIdle ==
    /\ rpc = "idle"
    /\ layer_styles = <<>>
    /\ symbols_content = <<>>
    /\ instances = <<>>
    /\ wires = <<>>
    /\ symbol_pages = <<>>
    /\ schematic_page = <<>>
    /\ cursor = 0
    /\ wires_by_net = <<>>
    /\ wire_counter = 0
    /\ calls = <<>>
    /\ render_op = "none"
    /\ render_arg = <<>>
    /\ output = <<>>

TreeIdle ==
    /\ tree_pc = "idle"
    /\ tree_children = <<>>
    /\ tree_parent = <<>>
    /\ tree_call = <<>>
    /\ tree_result = <<>>

InitMerge ==
    /\ pc = "build"
    /\ lines = <<>>
    /\ processed = <<>>
    /\ merged = <<>>
    /\ i = 0
    /\ j = 0
    /\ current_line = <<>>
    /\ merged_this_round = FALSE
    /\ fusions = <<>>
    /\ rounds = 0
    /\ TransformIdle
    /\ RenderIdle
    /\ TreeIdle

\* The caller collects the polylines of one group (render_symbol pushes the
\* points of every Shape::Line of a layer).  Points are named in order of
\* first appearance: merge_lines reads points through == only, so every
\* input is a renaming of one built here.
PushLine ==
    /\ pc = "build"
    /\ Len(lines) < MaxLines
    /\ lines' = Append(lines, <<>>)
    /\ UNCHANGED <<pc, processed, merged, i, j, current_line, merged_this_round, fusions,
                   rounds>>
    /\ UNCHANGED <<transformVars, renderVars, treeVars>>

PushPoint ==
    /\ pc = "build"
    /\ lines # <<>>
    /\ SumLen(lines) < MaxTotal
    /\ \E p \in 1..NumPoints :
        /\ p <= MaxOf(PointsOf(lines)) + 1
        /\ lines' = [lines EXCEPT ![Len(lines)] = Append(@, p)]
    /\ UNCHANGED <<pc, processed, merged, i, j, current_line, merged_this_round, fusions,
                   rounds>>
    /\ UNCHANGED <<transformVars, renderVars, treeVars>>

\* entry: `if lines.is_empty() { return Vec::new(); }`, else the two `let mut`
Call ==
    /\ pc = "build"
    /\ IF lines = <<>>
       THEN /\ pc' = "done"
            /\ UNCHANGED <<processed, merged, i>>
       ELSE /\ pc' = "outer"
            /\ processed' = [k \in 1..Len(lines) |-> FALSE]
            /\ merged' = <<>>
            /\ i' = 1
    /\ UNCHANGED <<lines, j, current_line, merged_this_round, fusions, rounds>>
    /\ UNCHANGED <<transformVars, renderVars, treeVars>>

\* `if processed[i] { continue; }`
OuterSkip ==
    /\ pc = "outer"
    /\ i <= Len(lines)
    /\ processed[i]
    /\ i' = i + 1
    /\ UNCHANGED <<pc, lines, processed, merged, j, current_line, merged_this_round,
                   fusions, rounds>>
    /\ UNCHANGED <<transformVars, renderVars, treeVars>>

\* mutant: a polyline without points is pushed to `merged` like any other
OuterEmptyPushed ==
    /\ pc = "outer"
    /\ i <= Len(lines)
    /\ ~processed[i]
    /\ lines[i] = <<>>
    /\ merged' = Append(merged, lines[i])
    /\ processed' = [processed EXCEPT ![i] = TRUE]
    /\ i' = i + 1
    /\ UNCHANGED <<pc, lines, j, current_line, merged_this_round, fusions, rounds>>
    /\ UNCHANGED <<transformVars, renderVars, treeVars>>

\* `if current_line.is_empty() { processed[i] = true; continue; }`
OuterEmpty ==
    /\ pc = "outer"
    /\ i <= Len(lines)
    /\ ~processed[i]
    /\ lines[i] = <<>>
    /\ processed' = [processed EXCEPT ![i] = TRUE]
    /\ i' = i + 1
    /\ UNCHANGED <<pc, lines, merged, j, current_line, merged_this_round, fusions, rounds>>
    /\ UNCHANGED <<transformVars, renderVars, treeVars>>

\* `let mut current_line = lines[i].clone();` and entry into `loop`
OuterStart ==
    /\ pc = "outer"
    /\ i <= Len(lines)
    /\ ~processed[i]
    /\ lines[i] # <<>>
    /\ current_line' = lines[i]
    /\ merged_this_round' = FALSE
    /\ j' = 1
    /\ pc' = "scan"
    /\ rounds' = 1
    /\ UNCHANGED <<lines, processed, merged, i, fusions>>
    /\ UNCHANGED <<transformVars, renderVars, treeVars>>

\* one iteration of the inner `for j`
ScanStep ==
    /\ pc = "scan"
    /\ j <= Len(lines)
    /\ LET r == ScanBody(lines, processed, merged, i, j, current_line)
       IN  /\ current_line' = r.current_line
           /\ processed' = r.processed
           /\ merged_this_round' = (merged_this_round \/ r.hit)
           /\ fusions' = IF r.hit
                         THEN Append(fusions, shared_point(current_line, lines[j]))
                         ELSE fusions
    /\ j' = j + 1
    /\ UNCHANGED <<pc, lines, merged, i, rounds>>
    /\ UNCHANGED <<transformVars, renderVars, treeVars>>

\* end of the `for j`: another round of `loop` after a merge
RoundAgain ==
    /\ pc = "scan"
    /\ j = Len(lines) + 1
    /\ merged_this_round
    /\ merged_this_round' = FALSE
    /\ j' = 1
    /\ rounds' = rounds + 1
    /\ UNCHANGED <<pc, lines, processed, merged, i, current_line, fusions>>
    /\ UNCHANGED <<transformVars, renderVars, treeVars>>

\* `break`, then `merged.push(current_line); processed[i] = true;`
ChainDone ==
    /\ pc = "scan"
    /\ j = Len(lines) + 1
    /\ ~merged_this_round
    /\ merged' = Append(merged, current_line)
    /\ processed' = [processed EXCEPT ![i] = TRUE]
    /\ i' = i + 1
    /\ pc' = "outer"
    /\ rounds' = 0
    /\ UNCHANGED <<lines, j, current_line, merged_this_round, fusions>>
    /\ UNCHANGED <<transformVars, renderVars, treeVars>>

\* the outer loop is over: `merged` is returned
Return ==
    /\ pc = "outer"
    /\ i = Len(lines) + 1
    /\ pc' = "done"
    /\ UNCHANGED <<lines, processed, merged, i, j, current_line, merged_this_round,
                   fusions, rounds>>
    /\ UNCHANGED <<transformVars, renderVars, treeVars>>

NextMerge ==
    \/ PushLine
    \/ PushPoint
    \/ Call
    \/ OuterSkip
    \/ OuterEmpty
    \/ OuterStart
    \/ ScanStep
    \/ RoundAgain
    \/ ChainDone
    \/ Return

SpecMerge == InitMerge /\ [][NextMerge]_vars

Done == pc = "done"

\* the loop and the function agree
LoopIsFunction == Done => merged = merge_lines(lines)

-----------------------------------------------------------------------------
(* Vocabulary of the merge_lines claims *)

Range(s) == {s[k] : k \in 1..Len(s)}

NonEmpty(l) == l # <<>>

\* the same path, forward or reversed
SameUpToDir(a, b) == a = b \/ a = Reverse(b)

\* the same set of paths, up to order and direction
SamePathSet(A, B) ==
    /\ \A a \in 1..Len(A) : \E b \in 1..Len(B) : SameUpToDir(A[a], B[b])
    /\ \A b \in 1..Len(B) : \E a \in 1..Len(A) : SameUpToDir(A[a], B[b])

\* how often point p occurs in a list of polylines
PointCount(ls, p) ==
    Cardinality({ab \in (1..Len(ls)) \X (1..SumLen(ls)) :
                    ab[2] <= Len(ls[ab[1]]) /\ ls[ab[1]][ab[2]] = p})

\* how often p is the shared point of a merge
FusionsAt(p) == Cardinality({k \in 1..Len(fusions) : fusions[k] = p})

\* x is a contiguous run of o, forward or reversed
OccursIn(x, o) ==
    \E s \in 0..(Len(o) - Len(x)) : SameUpToDir(SubSeq(o, s + 1, s + Len(x)), x)

\* every input polyline has two or more points, all different
WellFormed ==
    \A k \in 1..Len(lines) :
        Len(lines[k]) >= 2 /\ Cardinality(Range(lines[k])) = Len(lines[k])

\* the points that are an endpoint of three or more input polylines
JunctionPoints ==
    {p \in PointsOf(lines) :
        Cardinality({k \in 1..Len(lines) : Touches(lines[k], p)}) >= 3}

\* the input list in another order
Permuted(L, f) == [k \in 1..Len(L) |-> L[f[k]]]

\* the input list without the repetitions of a polyline given before
RECURSIVE Dedup(_)
Dedup(L) ==
    IF L = <<>> THEN <<>>
    ELSE IF \E m \in 1..(Len(L) - 1) : L[m] = Last(L)
         THEN Dedup(Pop(L))
         ELSE Append(Dedup(Pop(L)), Last(L))

\* the polylines laid end to end, each shared point once
RECURSIVE Join(_)
Join(ls) ==
    IF Len(ls) = 1 THEN ls[1] ELSE Join(Pop(ls)) \o Tail(Last(ls))

\* The simple open chains the input polylines form: some order and some
\* direction of the polylines in which each ends where the next begins, and
\* no point occurs twice in the whole.
ChainsOf(L) ==
    IF L = <<>> \/ \E k \in 1..Len(L) : Len(L[k]) < 2 THEN {}
    ELSE LET arranged(f, d) ==
                 [k \in 1..Len(L) |-> IF d[k] THEN L[f[k]] ELSE Reverse(L[f[k]])]
             linked(a) == \A k \in 1..(Len(a) - 1) : Last(a[k]) = First(a[k + 1])
             simple(c) == Cardinality(Range(c)) = Len(c)
         IN  {Join(arranged(fd[1], fd[2])) :
                 fd \in {x \in Permutations(1..Len(L)) \X [1..Len(L) -> BOOLEAN] :
                            /\ linked(arranged(x[1], x[2]))
                            /\ simple(Join(arranged(x[1], x[2])))}}

-----------------------------------------------------------------------------
(* Claims about merge_lines *)

\* C1: no merge is made at a junction: a point that is an endpoint of three
\* or more input polylines is never the shared point of a merge.
C1_NoMergeAtJunction ==
    (Done /\ WellFormed) => \A p \in JunctionPoints : FusionsAt(p) = 0

\* C2: input polylines that form a simple open chain, in any order and any
\* direction, give exactly one polyline: the chain, forward or reversed.
C2_ChainMergesToOne ==
    (Done /\ ChainsOf(lines) # {}) => \E c \in ChainsOf(lines) : merged = <<c>>

\* C3 as claimed: every output point is an input point, and the input points
\* and the output points are the same multiset.
C3_SameMultiset ==
    (Done /\ WellFormed) => /\ PointsOf(merged) \subseteq PointsOf(lines)
            /\ \A p \in 1..NumPoints : PointCount(merged, p) = PointCount(lines, p)

\* C3 as amended: the input and the output have the same set of points, and
\* the output multiset is the input multiset less one copy of the shared
\* point for every merge made.
C3_SameSetLessShared ==
    Done => /\ PointsOf(merged) = PointsOf(lines)
            /\ \A p \in 1..NumPoints :
                  PointCount(merged, p) = PointCount(lines, p) - FusionsAt(p)

C3_Witness ==
    /\ Done
    /\ Len(fusions) >= 1
    /\ Len(merged) >= 2

\* C4: the output is maximal: no two output polylines share an endpoint that
\* no third output polyline has as an endpoint.
C4_Maximal ==
    (Done /\ WellFormed) => \A a, b \in 1..Len(merged) : \A p \in 1..NumPoints :
                (a # b /\ Touches(merged[a], p) /\ Touches(merged[b], p))
                => \E c \in 1..Len(merged) : c # a /\ c # b /\ Touches(merged[c], p)

\* C5: the output does not depend on the order of the input list, up to the
\* order and the direction of the output polylines.
C5_OrderIndependent ==
    (Done /\ WellFormed) => \A f \in Permutations(1..Len(lines)) :
                SamePathSet(merge_lines(Permuted(lines, f)), merged)

\* C6: merging the output again gives the same polylines, up to order and
\* direction.
C6_Idempotent ==
    (Done /\ WellFormed) => SamePathSet(merge_lines(merged), merged)

\* C7: a polyline given more than once changes nothing: the output is that
\* of the input without the repetitions, up to direction.
C7_DuplicatesIgnored ==
    (Done /\ WellFormed) => SamePathSet(merged, merge_lines(Dedup(lines)))

\* C8: every input polyline is a contiguous run, forward or reversed, of an
\* output polyline (the claim adds: of exactly one).
C8_InputsAreRuns ==
    (Done /\ WellFormed) => \A k \in 1..Len(lines) :
                NonEmpty(lines[k]) => \E m \in 1..Len(merged) : OccursIn(lines[k], merged[m])

\* C9 as claimed: an empty list gives an empty list, a single polyline is
\* returned as given, and a polyline without points is returned unchanged.
C9_DegeneratePassThrough ==
    Done => /\ (lines = <<>> => merged = <<>>)
            /\ (Len(lines) = 1 => merged = lines)
            /\ Cardinality({m \in 1..Len(merged) : merged[m] = <<>>})
                 = Cardinality({k \in 1..Len(lines) : lines[k] = <<>>})

\* C9 as amended: an empty list gives an empty list, a single polyline that
\* has points is returned as given, and a polyline without points is dropped:
\* no output polyline is empty and the output is that of the input without
\* its empty polylines.
C9_EmptyDropped ==
    Done => /\ (lines = <<>> => merged = <<>>)
            /\ ((Len(lines) = 1 /\ NonEmpty(lines[1])) => merged = lines)
            /\ \A m \in 1..Len(merged) : NonEmpty(merged[m])
            /\ merged = merge_lines(SelectSeq(lines, NonEmpty))

C9_Witness ==
    /\ Done
    /\ Len(lines) = 3
    /\ lines[2] = <<>>
    /\ Len(merged) = 1
    /\ Len(fusions) = 1

-----------------------------------------------------------------------------
(* GroupTransform: values *)

\* Option<T>
None == <<>>
Some(v) == <<v>>
IsSome(x) == x # <<>>
Unwrap(x) == x[1]

\* DrawrsResult<T>
Ok(v) == [ok |-> TRUE, val |-> Some(v), err |-> None]
Err(e) == [ok |-> FALSE, val |-> None, err |-> Some(e)]
UnsupportedOrient(o) == <<"UnsupportedOrient", o>>

\* enum Orient
Orients == {"R0", "R90", "R180", "R270", "MY", "MX", "MYR90", "MXR90"}

\* the orientations the match arms answer with Err(UnsupportedOrient)
ErrOrients == {"R180", "MX", "MYR90", "MXR90"}

\* A string is the sequence of its pieces; str::starts_with
StartsWith(str, prefix) ==
    Len(str) >= Len(prefix) /\ SubSeq(str, 1, Len(prefix)) = prefix

LayerPrefix == <<"layer", "-">>

\* String::replace of one piece by a string
RECURSIVE Replace(_, _, _)
Replace(str, from, to) ==
    IF str = <<>> THEN <<>>
    ELSE (IF Head(str) = from THEN to ELSE <<Head(str)>>) \o Replace(Tail(str), from, to)

\* FlipRotation::default
DefaultFlipRotation ==
    [flip_h |-> None, flip_v |-> None, legacy_anchor_points |-> None, rotation |-> None]

-----------------------------------------------------------------------------
(* GroupTransform: the operations *)

\* mutant: R270 turns the point the way R90 does
OrientPoint_R270AsR90(o, p) ==
    CASE o = "R0" -> p
      [] o = "MY" -> <<-p[1], p[2]>>
      [] o = "R90" -> <<p[2], -p[1]>>
      [] o = "R270" -> <<p[2], -p[1]>>

\* the match of update_points on one point, for the orientations it handles
OrientPoint(o, p) ==
    CASE o = "R0" -> p
      [] o = "MY" -> <<-p[1], p[2]>>
      [] o = "R90" -> <<p[2], -p[1]>>
      [] o = "R270" -> <<-p[2], p[1]>>

\* update_points: the loop over the points, from point k on
RECURSIVE PointsLoop(_, _, _, _)
PointsLoop(o, off, pts, k) ==
    IF k > Len(pts) THEN Ok(pts)
    ELSE IF o \in ErrOrients THEN Err(UnsupportedOrient(o))
    ELSE LET q == OrientPoint(o, pts[k])
         IN  PointsLoop(o, off, [pts EXCEPT ![k] = <<q[1] + off[1], q[2] + off[2]>>], k + 1)

update_points(o, off, pts) == PointsLoop(o, off, pts, 1)

\* mutant: MX is taken for the mirror of MY and answered with a value
update_box_MirrorsMX(o, off, bx) ==
    IF ~IsSome(bx) THEN Ok(bx)
    ELSE IF o \in ErrOrients \ {"MX"} THEN Err(UnsupportedOrient(o))
    ELSE LET b == Unwrap(bx).bbox
             fr == Unwrap(bx).flip_rotation
             nb == CASE o = "R0" -> b
                     [] o = "R90" ->
                          [b EXCEPT !.min_x = b.min_y - ((b.width - b.height) \div 2),
                                    !.min_y = -b.min_x - (b.width \div 2) - (b.height \div 2)]
                     [] o = "R270" ->
                          [b EXCEPT !.min_x = -b.min_y - ((b.width + b.height) \div 2),
                                    !.min_y = b.min_x + (b.width \div 2) - (b.height \div 2)]
                     [] o = "MY" -> [b EXCEPT !.min_x = -(b.min_x + b.width)]
                     [] o = "MX" -> [b EXCEPT !.min_y = -(b.min_y + b.height)]
             nfr == CASE o = "R90" -> [fr EXCEPT !.rotation = Some(-90)]
                      [] o = "R270" -> [fr EXCEPT !.rotation = Some(90)]
                      [] OTHER -> fr
         IN  Ok(Some([bbox |-> [nb EXCEPT !.min_x = nb.min_x + off[1],
                                          !.min_y = nb.min_y + off[2]],
                      flip_rotation |-> nfr]))

\* mutant: a rotation records the angle and leaves the box where it is
update_box_RotatesInPlace(o, off, bx) ==
    IF ~IsSome(bx) THEN Ok(bx)
    ELSE IF o \in ErrOrients THEN Err(UnsupportedOrient(o))
    ELSE LET b == Unwrap(bx).bbox
             fr == Unwrap(bx).flip_rotation
             nb == IF o = "MY" THEN [b EXCEPT !.min_x = -(b.min_x + b.width)] ELSE b
             nfr == CASE o = "R90" -> [fr EXCEPT !.rotation = Some(-90)]
                      [] o = "R270" -> [fr EXCEPT !.rotation = Some(90)]
                      [] OTHER -> fr
         IN  Ok(Some([bbox |-> [nb EXCEPT !.min_x = nb.min_x + off[1],
                                          !.min_y = nb.min_y + off[2]],
                      flip_rotation |-> nfr]))

\* mutant: MY mirrors the corner of the box as if it were a point
update_box_MYMirrorsCorner(o, off, bx) ==
    IF ~IsSome(bx) THEN Ok(bx)
    ELSE IF o \in ErrOrients THEN Err(UnsupportedOrient(o))
    ELSE LET b == Unwrap(bx).bbox
             fr == Unwrap(bx).flip_rotation
             nb == CASE o = "R0" -> b
                     [] o = "R90" ->
                          [b EXCEPT !.min_x = b.min_y - ((b.width - b.height) \div 2),
                                    !.min_y = -b.min_x - (b.width \div 2) - (b.height \div 2)]
                     [] o = "R270" ->
                          [b EXCEPT !.min_x = -b.min_y - ((b.width + b.height) \div 2),
                                    !.min_y = b.min_x + (b.width \div 2) - (b.height \div 2)]
                     [] o = "MY" -> [b EXCEPT !.min_x = -b.min_x]
             nfr == CASE o = "R90" -> [fr EXCEPT !.rotation = Some(-90)]
                      [] o = "R270" -> [fr EXCEPT !.rotation = Some(90)]
                      [] OTHER -> fr
         IN  Ok(Some([bbox |-> [nb EXCEPT !.min_x = nb.min_x + off[1],
                                          !.min_y = nb.min_y + off[2]],
                      flip_rotation |-> nfr]))

\* mutant: R90 lays the box on its side, the width and the height change places
update_box_R90Transposes(o, off, bx) ==
    IF ~IsSome(bx) THEN Ok(bx)
    ELSE IF o \in ErrOrients THEN Err(UnsupportedOrient(o))
    ELSE LET b == Unwrap(bx).bbox
             fr == Unwrap(bx).flip_rotation
             nb == CASE o = "R0" -> b
                     [] o = "R90" ->
                          [b EXCEPT !.min_x = b.min_y - ((b.width - b.height) \div 2),
                                    !.min_y = -b.min_x - (b.width \div 2) - (b.height \div 2),
                                    !.width = b.height,
                                    !.height = b.width]
                     [] o = "R270" ->
                          [b EXCEPT !.min_x = -b.min_y - ((b.width + b.height) \div 2),
                                    !.min_y = b.min_x + (b.width \div 2) - (b.height \div 2)]
                     [] o = "MY" -> [b EXCEPT !.min_x = -(b.min_x + b.width)]
             nfr == CASE o = "R90" -> [fr EXCEPT !.rotation = Some(-90)]
                      [] o = "R270" -> [fr EXCEPT !.rotation = Some(90)]
                      [] OTHER -> fr
         IN  Ok(Some([bbox |-> [nb EXCEPT !.min_x = nb.min_x + off[1],
                                          !.min_y = nb.min_y + off[2]],
                      flip_rotation |-> nfr]))

\* update_box on Option<(&mut BoundingBox, &mut FlipRotation)>.  Widths and
\* heights are even, so that the halves are exact.
update_box(o, off, bx) ==
    IF ~IsSome(bx) THEN Ok(bx)
    ELSE IF o \in ErrOrients THEN Err(UnsupportedOrient(o))
    ELSE LET b == Unwrap(bx).bbox
             fr == Unwrap(bx).flip_rotation
             nb == CASE o = "R0" -> b
                     [] o = "R90" ->
                          [b EXCEPT !.min_x = b.min_y - ((b.width - b.height) \div 2),
                                    !.min_y = -b.min_x - (b.width \div 2) - (b.height \div 2)]
                     [] o = "R270" ->
                          [b EXCEPT !.min_x = -b.min_y - ((b.width + b.height) \div 2),
                                    !.min_y = b.min_x + (b.width \div 2) - (b.height \div 2)]
                     [] o = "MY" -> [b EXCEPT !.min_x = -(b.min_x + b.width)]
             nfr == CASE o = "R90" -> [fr EXCEPT !.rotation = Some(-90)]
                      [] o = "R270" -> [fr EXCEPT !.rotation = Some(90)]
                      [] OTHER -> fr
         IN  Ok(Some([bbox |-> [nb EXCEPT !.min_x = nb.min_x + off[1],
                                          !.min_y = nb.min_y + off[2]],
                      flip_rotation |-> nfr]))

\* mutant: R90 swaps Left and Right as MY does
update_justify_SwapsUnderR90(o, ju) ==
    IF ~IsSome(ju) THEN Ok(ju)
    ELSE IF o \in ErrOrients THEN Err(UnsupportedOrient(o))
    ELSE IF o \in {"MY", "R90"}
         THEN Ok(Some([Unwrap(ju) EXCEPT !.x = CASE @ = "Left" -> "Right"
                                               [] @ = "Center" -> "Center"
                                               [] @ = "Right" -> "Left"]))
         ELSE Ok(ju)

\* update_justify on Option<&mut Justify>
update_justify(o, ju) ==
    IF ~IsSome(ju) THEN Ok(ju)
    ELSE IF o \in ErrOrients THEN Err(UnsupportedOrient(o))
    ELSE IF o = "MY"
         THEN Ok(Some([Unwrap(ju) EXCEPT !.x = CASE @ = "Left" -> "Right"
                                               [] @ = "Center" -> "Center"
                                               [] @ = "Right" -> "Left"]))
         ELSE Ok(ju)

\* update_text
update_text(inst, cell, text) ==
    IF IsSome(text)
    THEN Some(Replace(Replace(Unwrap(text), "[@cellName]", inst), "cdsName()", cell))
    ELSE text

\* DiagramObject::mut_points: nothing for XmlBase; Geometry::points_mut for
\* Object and Edge: the intermediate points, then the target, then the source
mut_points(d) ==
    IF d.kind = "XmlBase" THEN <<>>
    ELSE LET g == Unwrap(d.geometry)
         IN  g.intermediate_points \o g.target_point \o g.source_point

\* the points written back through the iterator of mut_points
with_points(d, pts) ==
    IF d.kind = "XmlBase" THEN d
    ELSE LET g == Unwrap(d.geometry)
             n == Len(g.intermediate_points)
             t == Len(g.target_point)
         IN  [d EXCEPT !.geometry = Some(
                 [g EXCEPT !.intermediate_points = SubSeq(pts, 1, n),
                           !.target_point = SubSeq(pts, n + 1, n + t),
                           !.source_point = SubSeq(pts, n + t + 1, Len(pts))])]

\* DiagramObject::mut_box: the box and the flip rotation of an Object only
mut_box(d) ==
    IF d.kind = "Object"
    THEN Some([bbox |-> Unwrap(d.geometry).bounding_box,
               flip_rotation |-> Unwrap(d.geometry).flip_rotation])
    ELSE None

with_box(d, bx) ==
    IF d.kind = "Object"
    THEN [d EXCEPT !.geometry = Some([Unwrap(@) EXCEPT
                                        !.bounding_box = Unwrap(bx).bbox,
                                        !.flip_rotation = Unwrap(bx).flip_rotation])]
    ELSE d

\* DiagramObject::justify_mut: of an Object only
justify_mut(d) == IF d.kind = "Object" THEN d.justify ELSE None

with_justify(d, ju) == IF d.kind = "Object" THEN [d EXCEPT !.justify = ju] ELSE d

\* mutant: the geometry is transformed whatever the parent
new_obj_IgnoresParent(o, off, inst, cell, d) ==
    LET named == [d EXCEPT !.id = inst \o <<"-">> \o d.id,
                           !.value = update_text(inst, cell, d.value),
                           !.tag = Some(inst)]
        rp == update_points(o, off, mut_points(named))
        rb == update_box(o, off, mut_box(named))
        rj == update_justify(o, justify_mut(named))
    IN  IF ~rp.ok THEN rp
        ELSE IF ~rb.ok THEN rb
        ELSE IF ~rj.ok THEN rj
        ELSE Ok(with_justify(with_box(with_points(named, Unwrap(rp.val)),
                                      Unwrap(rb.val)),
                             Unwrap(rj.val)))

\* new_obj
new_obj(o, off, inst, cell, d) ==
    LET named == [d EXCEPT !.id = inst \o <<"-">> \o d.id,
                           !.value = update_text(inst, cell, d.value),
                           !.tag = Some(inst)]
    IN  IF IsSome(d.xml_parent) /\ StartsWith(Unwrap(d.xml_parent), LayerPrefix)
        THEN LET rp == update_points(o, off, mut_points(named))
                 rb == update_box(o, off, mut_box(named))
                 rj == update_justify(o, justify_mut(named))
             IN  IF ~rp.ok THEN rp
                 ELSE IF ~rb.ok THEN rb
                 ELSE IF ~rj.ok THEN rj
                 ELSE Ok(with_justify(with_box(with_points(named, Unwrap(rp.val)),
                                               Unwrap(rb.val)),
                                      Unwrap(rj.val)))
        ELSE Ok(named)

-----------------------------------------------------------------------------
(* GroupTransform: the objects and the calls of the model *)

Coords == 0..MaxCoord
Points == Coords \X Coords
Offsets == {<<x, -y>> : x \in Coords, y \in Coords}
Sizes == {2 * h : h \in 0..MaxHalfSize}

OptPoints == {None} \cup {Some(p) : p \in Points}

\* the point lists handed to update_points: up to two points
PointLists == {<<>>} \cup {<<p>> : p \in Points} \cup {<<p, q>> : p \in Points, q \in Points}

BoundingBoxes ==
    [min_x : Coords, min_y : Coords, width : Sizes, height : Sizes]

\* FlipRotation: the default, and one with a flip flag and a rotation set
FlipRotations ==
    {DefaultFlipRotation,
     [flip_h |-> Some(1), flip_v |-> None, legacy_anchor_points |-> None,
      rotation |-> Some(90)]}

OptBoxes ==
    {None} \cup {Some([bbox |-> b, flip_rotation |-> fr]) :
                     b \in BoundingBoxes, fr \in FlipRotations}

Justifies == [x : {"Left", "Center", "Right"}, y : {"Top", "Middle", "Bottom"}]

OptJustifies == {None} \cup {Some(ju) : ju \in Justifies}

\* Geometry of an edge: source, target and at most one intermediate point
EdgeGeometries ==
    [bounding_box : {[min_x |-> 0, min_y |-> 0, width |-> 120, height |-> 60]},
     flip_rotation : {DefaultFlipRotation},
     intermediate_points : {<<>>} \cup {<<p>> : p \in Points},
     target_point : OptPoints,
     source_point : OptPoints]

\* Geometry::with_position: a box and no points
BoxGeometries ==
    [bounding_box : BoundingBoxes,
     flip_rotation : {DefaultFlipRotation},
     intermediate_points : {<<>>},
     target_point : {None},
     source_point : {None}]

Parents == {None, Some(<<"0">>), Some(<<"layer">>), Some(<<"layer", "-", "wire">>)}

Texts == {None, Some(<<"[@cellName]", ":", "cdsName()">>)}

DiagramObjects ==
    [kind : {"XmlBase"}, id : {<<"o1">>}, xml_parent : Parents, value : Texts,
     tag : {None}, geometry : {None}, justify : {None}]
    \cup
    [kind : {"Edge"}, id : {<<"o1">>}, xml_parent : Parents, value : Texts,
     tag : {None}, geometry : {Some(g) : g \in EdgeGeometries}, justify : {None}]
    \cup
    [kind : {"Object"}, id : {<<"o1">>}, xml_parent : Parents, value : Texts,
     tag : {None}, geometry : {Some(g) : g \in BoxGeometries},
     justify : {Some(ju) : ju \in Justifies}]

InstNames == {<<"U1">>, <<"U2">>}
CellNames == {<<"cellA">>}

\* GroupTransform::new
InitTransform ==
    /\ MergeIdle
    /\ RenderIdle
    /\ TreeIdle
    /\ tpc = "ready"
    /\ orient \in Orients
    /\ offset \in Offsets
    /\ inst_name \in InstNames
    /\ cell_name \in CellNames
    /\ op = "none"
    /\ arg = <<>>
    /\ result = <<>>

\* One call in a behaviour: the operations take &self and change nothing of
\* the GroupTransform, so what a call returns does not depend on earlier ones.
Returned(name, a, r) ==
    /\ tpc' = "returned"
    /\ op' = name
    /\ arg' = a
    /\ result' = r
    /\ UNCHANGED <<orient, offset, inst_name, cell_name>>
    /\ UNCHANGED <<mergeVars, renderVars, treeVars>>

UpdatePoints ==
    /\ tpc = "ready"
    /\ \E pts \in PointLists :
          Returned("update_points", pts, update_points(orient, offset, pts))

UpdateBox ==
    /\ tpc = "ready"
    /\ \E bx \in OptBoxes :
          Returned("update_box", bx, update_box(orient, offset, bx))

UpdateJustify ==
    /\ tpc = "ready"
    /\ \E ju \in OptJustifies :
          Returned("update_justify", ju, update_justify(orient, ju))

NewObj ==
    /\ tpc = "ready"
    /\ \E d \in DiagramObjects :
          Returned("new_obj", d, new_obj(orient, offset, inst_name, cell_name, d))

\* a second GroupTransform, of orientation R270 and no offset, is given the
\* box that update_box left under R90 and no offset
UpdateBoxBack ==
    /\ tpc = "returned"
    /\ op = "update_box"
    /\ orient = "R90"
    /\ offset = <<0, 0>>
    /\ result.ok
    /\ tpc' = "returned twice"
    /\ orient' = "R270"
    /\ result' = update_box("R270", <<0, 0>>, Unwrap(result.val))
    /\ UNCHANGED <<offset, inst_name, cell_name, op, arg>>
    /\ UNCHANGED <<mergeVars, renderVars, treeVars>>

NextTransform ==
    \/ UpdatePoints
    \/ UpdateBox
    \/ UpdateJustify
    \/ NewObj
    \/ UpdateBoxBack

SpecTransform == InitTransform /\ [][NextTransform]_vars

-----------------------------------------------------------------------------
(* Claims about GroupTransform *)

LayerBound(d) == IsSome(d.xml_parent) /\ StartsWith(Unwrap(d.xml_parent), LayerPrefix)

\* the object has something for the three transforms to work on
HasGeometry(d) == mut_points(d) # <<>> \/ IsSome(mut_box(d)) \/ IsSome(justify_mut(d))

Called(name) == tpc = "returned" /\ op = name

ErrOfOrient == result = Err(UnsupportedOrient(orient))

\* C10 as claimed: under R180, MX, MYR90 and MXR90 the three transforms
\* return UnsupportedOrient of that orientation for every input, and new_obj
\* returns it for every layer-bound object.
C10_AlwaysUnsupported ==
    orient \in ErrOrients =>
        /\ (Called("update_points") \/ Called("update_box") \/ Called("update_justify"))
             => ErrOfOrient
        /\ (Called("new_obj") /\ LayerBound(arg)) => ErrOfOrient

\* C10 as amended: under these orientations each transform returns
\* UnsupportedOrient of that orientation when it is given something to
\* transform (a point, a box, a justification) and Ok with nothing changed
\* when it is given none (no point, None); new_obj returns the error for
\* every layer-bound object that has a point, a box or a justification, and
\* for the other layer-bound objects Ok with a copy whose geometry is that
\* of the original.  Ok never carries a transformed value.
C10_UnsupportedUnlessNothing ==
    orient \in ErrOrients =>
        /\ Called("update_points") =>
             result = IF arg # <<>> THEN Err(UnsupportedOrient(orient)) ELSE Ok(arg)
        /\ (Called("update_box") \/ Called("update_justify")) =>
             result = IF IsSome(arg) THEN Err(UnsupportedOrient(orient)) ELSE Ok(arg)
        /\ (Called("new_obj") /\ LayerBound(arg)) =>
             IF HasGeometry(arg)
             THEN ErrOfOrient
             ELSE /\ result.ok
                  /\ Unwrap(result.val).geometry = arg.geometry
                  /\ Unwrap(result.val).justify = arg.justify

C10_Witness ==
    /\ orient = "MX"
    /\ Called("new_obj")
    /\ LayerBound(arg)
    /\ arg.kind = "Object"
    /\ ErrOfOrient

\* the orientations the transforms answer with a value
OkOrients == {"R0", "MY", "R90", "R270"}

\* the image of the point (x, y) under orientation o and offset (ox, oy), as
\* C12 states it
ClaimedPoint(o, off, p) ==
    CASE o = "R0" -> <<p[1] + off[1], p[2] + off[2]>>
      [] o = "MY" -> <<-p[1] + off[1], p[2] + off[2]>>
      [] o = "R90" -> <<p[2] + off[1], -p[1] + off[2]>>
      [] o = "R270" -> <<-p[2] + off[1], p[1] + off[2]>>

ClaimedPoints(o, off, pts) == [k \in 1..Len(pts) |-> ClaimedPoint(o, off, pts[k])]

ClaimedBox(o, off, b) ==
    CASE o = "R0" ->
           [b EXCEPT !.min_x = b.min_x + off[1], !.min_y = b.min_y + off[2]]
      [] o = "MY" ->
           [b EXCEPT !.min_x = -(b.min_x + b.width) + off[1], !.min_y = b.min_y + off[2]]
      [] o = "R90" ->
           [b EXCEPT !.min_x = b.min_y - ((b.width - b.height) \div 2) + off[1],
                     !.min_y = -b.min_x - (b.width \div 2) - (b.height \div 2) + off[2]]
      [] o = "R270" ->
           [b EXCEPT !.min_x = -b.min_y - ((b.width + b.height) \div 2) + off[1],
                     !.min_y = b.min_x + (b.width \div 2) - (b.height \div 2) + off[2]]

\* the flip rotation it leaves: rotation -90 under R90, +90 under R270,
\* nothing changed under R0 and MY; the flip flags are kept
ClaimedFlipRotation(o, fr) ==
    CASE o = "R90" -> [fr EXCEPT !.rotation = Some(-90)]
      [] o = "R270" -> [fr EXCEPT !.rotation = Some(90)]
      [] o \in {"R0", "MY"} -> fr

MirroredX(x) == IF x = "Left" THEN "Right" ELSE IF x = "Right" THEN "Left" ELSE x

\* the justification C14 states for orientation o
ClaimedJustify(o, ju) == IF o = "MY" THEN [x |-> MirroredX(ju.x), y |-> ju.y] ELSE ju

\* C14: update_justify changes the X justification only, and under MY only
\* (Left and Right swapped, Center kept); under R0, R90 and R270 it returns
\* the justification unchanged; no orientation returns a justification with
\* another Y.  new_obj leaves that justification on a layer-bound Object.
C14_OnlyXUnderMY ==
    /\ (Called("update_justify") /\ IsSome(arg)) =>
         /\ orient \in OkOrients =>
                result = Ok(Some(ClaimedJustify(orient, Unwrap(arg))))
         /\ result.ok => Unwrap(Unwrap(result.val)).y = Unwrap(arg).y
    /\ (Called("new_obj") /\ LayerBound(arg) /\ arg.kind = "Object") =>
         /\ orient \in OkOrients =>
                /\ result.ok
                /\ Unwrap(result.val).justify =
                       Some(ClaimedJustify(orient, Unwrap(arg.justify)))
         /\ result.ok => Unwrap(Unwrap(result.val).justify).y = Unwrap(arg.justify).y

C14_Witness ==
    /\ orient = "MY"
    /\ Called("update_justify")
    /\ arg = Some([x |-> "Left", y |-> "Top"])
    /\ result = Ok(Some([x |-> "Right", y |-> "Top"]))

\* C15: for an object that has no parent, or a parent whose id does not
\* start with "layer-", new_obj returns Ok under every orientation with a
\* copy whose points, box, rotation and justification are those of the
\* original, whose id is the instance name, '-' and the original id, whose
\* text has the two placeholders replaced and whose tag is the instance name.
C15_UnlayeredUntransformed ==
    (Called("new_obj") /\ ~LayerBound(arg)) =>
        /\ result.ok
        /\ LET n == Unwrap(result.val)
           IN  /\ n.geometry = arg.geometry
               /\ n.justify = arg.justify
               /\ n.kind = arg.kind
               /\ n.xml_parent = arg.xml_parent
               /\ n.id = inst_name \o <<"-">> \o arg.id
               /\ n.tag = Some(inst_name)
               /\ n.value = IF IsSome(arg.value)
                             THEN Some(inst_name \o <<":">> \o cell_name)
                             ELSE None

C15_Witness ==
    /\ orient = "R90"
    /\ offset = <<1, -1>>
    /\ Called("new_obj")
    /\ arg.xml_parent = Some(<<"layer">>)
    /\ arg.kind = "Object"
    /\ IsSome(arg.value)
    /\ Unwrap(arg.geometry).bounding_box.width = 2
    /\ result.ok
    /\ Unwrap(result.val).id = <<"U2", "-", "o1">>

\* C22: a box that update_box has taken through R90 and then through R270,
\* with no offset either time, has the width and the height it had
C22_RoundTripKeepsSize ==
    (tpc = "returned twice" /\ IsSome(arg)) =>
        /\ result.ok
        /\ Unwrap(Unwrap(result.val)).bbox.width = Unwrap(arg).bbox.width
        /\ Unwrap(Unwrap(result.val)).bbox.height = Unwrap(arg).bbox.height

\* the round trip of a box that is wider than high and not at the origin
C22_Witness ==
    /\ tpc = "returned twice"
    /\ IsSome(arg)
    /\ Unwrap(arg).bbox = [min_x |-> 1, min_y |-> 1, width |-> 2, height |-> 0]
    /\ result.ok
    /\ Unwrap(Unwrap(result.val)).bbox.width = 2

\* the centre of a box
Centre(b) == <<b.min_x + (b.width \div 2), b.min_y + (b.height \div 2)>>

\* C29: under R0, MY, R90 and R270 and any offset, the centre of the box
\* that update_box leaves is the point that update_points makes of the
\* centre of the box it was given
C29_CentreAsPoint ==
    (Called("update_box") /\ orient \in OkOrients /\ IsSome(arg)) =>
        /\ result.ok
        /\ update_points(orient, offset, <<Centre(Unwrap(arg).bbox)>>).ok
        /\ Centre(Unwrap(Unwrap(result.val)).bbox)
               = Unwrap(update_points(orient, offset, <<Centre(Unwrap(arg).bbox)>>).val)[1]

\* a box with a width and a height, off the origin, turned with an offset
C29_Witness ==
    /\ Called("update_box")
    /\ orient = "R270"
    /\ offset = <<1, -1>>
    /\ IsSome(arg)
    /\ Unwrap(arg).bbox = [min_x |-> 1, min_y |-> 0, width |-> 2, height |-> 2]
    /\ result.ok
    /\ Centre(Unwrap(Unwrap(result.val)).bbox) = <<0, 1>>

-----------------------------------------------------------------------------
(* BoundingBox::union.  It takes no GroupTransform, so its specification   *)
(* has none: a list of boxes is handed to it and what it returns is kept.  *)

\* the most boxes in a list
MaxBoxes == 2

BoxLists == UNION {[1..n -> BoundingBoxes] : n \in 0..MaxBoxes}

\* f64::min and f64::max on an accumulator that starts at f64::INFINITY or
\* f64::NEG_INFINITY, here None
f64_min(acc, v) == IF IsSome(acc) /\ Unwrap(acc) <= v THEN acc ELSE Some(v)
f64_max(acc, v) == IF IsSome(acc) /\ Unwrap(acc) >= v THEN acc ELSE Some(v)

\* mutant: the right and lower edges are taken for the left and upper ones
UnionLoop_ForgetsSize(bboxs, q, acc) ==
    IF bboxs = <<>> THEN acc
    ELSE [min_x |-> Some(MaxOf({-bboxs[r].min_x : r \in 1..Len(bboxs)}) * (-1)),
          min_y |-> Some(MaxOf({-bboxs[r].min_y : r \in 1..Len(bboxs)}) * (-1)),
          max_x |-> Some(MaxOf({bboxs[r].min_x : r \in 1..Len(bboxs)})),
          max_y |-> Some(MaxOf({bboxs[r].min_y : r \in 1..Len(bboxs)})),
          has_objects |-> TRUE]

\* union: `for bbox in bboxs`, from box q on
RECURSIVE UnionLoop(_, _, _)
UnionLoop(bboxs, q, acc) ==
    IF q > Len(bboxs) THEN acc
    ELSE UnionLoop(bboxs, q + 1,
             [min_x |-> f64_min(acc.min_x, bboxs[q].min_x),
              min_y |-> f64_min(acc.min_y, bboxs[q].min_y),
              max_x |-> f64_max(acc.max_x, bboxs[q].min_x + bboxs[q].width),
              max_y |-> f64_max(acc.max_y, bboxs[q].min_y + bboxs[q].height),
              has_objects |-> TRUE])

\* BoundingBox::union
union(bboxs) ==
    LET r == UnionLoop(bboxs, 1, [min_x |-> None, min_y |-> None, max_x |-> None,
                                  max_y |-> None, has_objects |-> FALSE])
    IN  IF r.has_objects
        THEN Some([min_x |-> Unwrap(r.min_x), min_y |-> Unwrap(r.min_y),
                   width |-> Unwrap(r.max_x) - Unwrap(r.min_x),
                   height |-> Unwrap(r.max_y) - Unwrap(r.min_y)])
        ELSE None

InitUnion ==
    /\ MergeIdle
    /\ RenderIdle
    /\ TreeIdle
    /\ tpc = "static"
    /\ orient = "none"
    /\ offset = <<>>
    /\ inst_name = <<>>
    /\ cell_name = <<>>
    /\ op = "none"
    /\ arg = <<>>
    /\ result = <<>>

Union ==
    /\ tpc = "static"
    /\ \E bboxs \in BoxLists :
           /\ tpc' = "returned"
           /\ op' = "union"
           /\ arg' = bboxs
           /\ result' = union(bboxs)
    /\ UNCHANGED <<orient, offset, inst_name, cell_name>>
    /\ UNCHANGED <<mergeVars, renderVars, treeVars>>

SpecUnion == InitUnion /\ [][Union]_vars

\* C21: union returns None for the empty list and for no other; of boxes
\* with no negative width or height it returns the box whose left and upper
\* edges are the least of theirs and whose right and lower edges are the
\* greatest of theirs, which has no negative width or height
C21_UnionSmallestBox ==
    Called("union") =>
        /\ result = None <=> arg = <<>>
        /\ arg # <<>> =>
               LET u == Unwrap(result)
               IN  /\ \A q \in 1..Len(arg) :
                          /\ u.min_x <= arg[q].min_x
                          /\ u.min_y <= arg[q].min_y
                          /\ u.min_x + u.width >= arg[q].min_x + arg[q].width
                          /\ u.min_y + u.height >= arg[q].min_y + arg[q].height
                   /\ \E q \in 1..Len(arg) : u.min_x = arg[q].min_x
                   /\ \E q \in 1..Len(arg) : u.min_y = arg[q].min_y
                   /\ \E q \in 1..Len(arg) : u.min_x + u.width = arg[q].min_x + arg[q].width
                   /\ \E q \in 1..Len(arg) : u.min_y + u.height = arg[q].min_y + arg[q].height
                   /\ u.width >= 0
                   /\ u.height >= 0

\* the union of two boxes neither of which holds the other
C21_Witness ==
    /\ Called("union")
    /\ Len(arg) = 2
    /\ arg[1] = [min_x |-> 0, min_y |-> 1, width |-> 2, height |-> 0]
    /\ arg[2] = [min_x |-> 1, min_y |-> 0, width |-> 0, height |-> 2]
    /\ result = Some([min_x |-> 0, min_y |-> 0, width |-> 2, height |-> 2])

-----------------------------------------------------------------------------
(* Renderer: values.  A string is the sequence of its pieces, a page the    *)
(* sequence of its objects, a .drawio file the sequence of its diagrams.    *)

\* const SCALE
SCALE == 200

\* enum Layer, by its Display
Layers == {"instance", "annotate", "pin", "device", "wire", "text"}

\* DrawcktError
RepeatLayer(layer) == <<"RepeatLayer", layer>>
SymbolNotFound(lib, cell) == <<"SymbolNotFound", lib \o <<"/">> \o cell>>
NoPage == <<"NoPage">>
Drawrs(e) == <<"Drawrs", e>>

\* the `?` on a DrawrsResult inside a function returning DrawcktResult
FromDrawrs(r) == IF r.ok THEN r ELSE Err(Drawrs(Unwrap(r.err)))

\* Display of a usize, for the numbers written into ids
ToStr(n) == <<"0", "1", "2", "3", "4", "5", "6", "7", "8", "9">>[n + 1]

Abs(x) == IF x < 0 THEN -x ELSE x

\* Layer::id_shape and Layer::id_label: "layer-{layer}-shape",
\* "layer-{layer}-intersection", "layer-{layer}-label"
id_shape(layer, is_intersection) ==
    <<"layer", "-", layer, "-", IF is_intersection THEN "intersection" ELSE "shape">>

id_label(layer) == <<"layer", "-", layer, "-", "label">>

\* Symbol::gen_obj_id: "{lib}/{cell}-{layer}-{idx}"
gen_obj_id(template, layer, idx) ==
    template.lib \o <<"/">> \o template.cell \o <<"-", layer, "-", ToStr(idx)>>

\* the alphanumeric characters of the net names of the model
NetAlphanumerics == {"A", "B", "1"}

\* gen_wire_id for a net with a name: "wire-{safe_net}-{counter}", every
\* character of the net that is neither alphanumeric nor '_' replaced by '_'
gen_wire_id(net, counter) ==
    <<"wire", "-">>
    \o [q \in 1..Len(net) |-> IF net[q] \in NetAlphanumerics \cup {"_"} THEN net[q] ELSE "_"]
    \o <<"-", ToStr(counter)>>

\* an mxCell of class XMLBase, as DiagramObject::XmlBase
XmlCell(id, parent, value) ==
    [kind |-> "XmlBase", id |-> id, xml_parent |-> parent, value |-> value,
     tag |-> None, geometry |-> None, justify |-> None]

\* Page::new(_, false): the objects of a new page
NewPage == <<XmlCell(<<"0">>, None, None)>>

\* init_layers: the loop over layer_order from its end, position q; `seen`
\* holds the layers whose flag is set
RECURSIVE InitLayersLoop(_, _, _, _)
InitLayersLoop(order, q, seen, page) ==
    IF q = 0 THEN Ok(page)
    ELSE LET layer == order[q]
             intersection ==
                 IF layer = "wire"
                 THEN <<XmlCell(id_shape(layer, TRUE), Some(<<"0">>),
                                Some(<<layer, "-", "intersection">>))>>
                 ELSE <<>>
         IN  IF layer \in seen THEN Err(RepeatLayer(layer))
             ELSE InitLayersLoop(order, q - 1, seen \cup {layer},
                      page \o intersection
                      \o <<XmlCell(id_shape(layer, FALSE), Some(<<"0">>),
                                   Some(<<layer, "-", "shape">>)),
                           XmlCell(id_label(layer), Some(<<"0">>),
                                   Some(<<layer, "-", "label">>))>>)

init_layers(style, page) ==
    InitLayersLoop(style.layer_order, Len(style.layer_order), {}, page)

\* mutant: the Y axis is not turned over
ScalePoint_KeepsY(p) == <<p[1] * SCALE, p[2] * SCALE>>

\* a schematic point in pixels: scaled, Y negated
ScalePoint(p) == <<p[1] * SCALE, -p[2] * SCALE>>

\* render_shape for Shape::Line: the page with the Edge added to it
render_shape(shape, page, obj_id, is_intersection) ==
    IF Len(shape.points) >= 2
    THEN LET source == First(shape.points)
             target == Last(shape.points)
             intermediate == IF Len(shape.points) > 2
                             THEN SubSeq(shape.points, 2, Len(shape.points) - 1)
                             ELSE <<>>
         IN  Append(page,
                 [kind |-> "Edge", id |-> obj_id,
                  xml_parent |-> Some(id_shape(shape.layer, is_intersection)),
                  value |-> None, tag |-> None, justify |-> None,
                  geometry |-> Some(
                      [bounding_box |->
                           [min_x |-> 0, min_y |-> 0,
                            width |-> Abs(target[1] - source[1]) * SCALE,
                            height |-> Abs(target[2] - source[2]) * SCALE],
                       flip_rotation |-> DefaultFlipRotation,
                       intermediate_points |->
                           [q \in 1..Len(intermediate) |-> ScalePoint(intermediate[q])],
                       target_point |-> Some(ScalePoint(target)),
                       source_point |-> Some(ScalePoint(source))])])
    ELSE page

\* a quotient of two numbers n >= 0 and d > 0, as <<n, d>> in lowest terms
RECURSIVE Gcd(_, _)
Gcd(n, d) == IF d = 0 THEN n ELSE Gcd(d, n % d)

Quotient(n, d) == <<n \div Gcd(n, d), d \div Gcd(n, d)>>

\* mutant: the Y coordinate is not flipped
norm_y_flipped_Unflipped(norm_y) == norm_y

\* render_shape for Shape::Polygon: 1.0 - norm_y
norm_y_flipped(norm_y) == Quotient(norm_y[2] - norm_y[1], norm_y[2])

\* render_shape for Shape::Polygon: the page with the Object added to it;
\* the colours that apply_fill_style sets are left out
render_polygon(shape, page, obj_id, is_intersection) ==
    IF Len(shape.points) >= 3
    THEN LET xs == {shape.points[q][1] : q \in 1..Len(shape.points)}
             ys == {shape.points[q][2] : q \in 1..Len(shape.points)}
             min_x == CHOOSE v \in xs : \A w \in xs : v <= w
             min_y_local == CHOOSE v \in ys : \A w \in ys : v <= w
             max_x == MaxOf(xs)
             max_y_local == MaxOf(ys)
             bbox_width == max_x - min_x
             bbox_height == max_y_local - min_y_local
             norm_x(pt) == IF bbox_width > 0 THEN Quotient(pt[1] - min_x, bbox_width)
                           ELSE <<0, 1>>
             norm_y(pt) == IF bbox_height > 0
                           THEN Quotient(pt[2] - min_y_local, bbox_height)
                           ELSE <<0, 1>>
         IN  Append(page,
                 [kind |-> "Object", id |-> obj_id,
                  xml_parent |-> Some(id_shape(shape.layer, is_intersection)),
                  value |-> None, tag |-> None, justify |-> None, geometry |-> None,
                  position |-> <<min_x * SCALE, -max_y_local * SCALE>>,
                  width |-> Abs(bbox_width * SCALE),
                  height |-> Abs(bbox_height * SCALE),
                  shape |-> <<"mxgraph.basic.polygon">>,
                  poly_coords |->
                      [q \in 1..Len(shape.points) |->
                           <<norm_x(shape.points[q]),
                             norm_y_flipped(norm_y(shape.points[q]))>>]])
    ELSE page

\* the order in which render_symbol renders the lines of the layers
LayerGroups == <<"wire", "instance", "annotate", "pin", "device", "text">>

\* lines_{layer}: the points of the Shape::Line of a layer, in order
RECURSIVE LinesOf(_, _)
LinesOf(shapes, layer) ==
    IF shapes = <<>> THEN <<>>
    ELSE (IF Head(shapes).layer = layer THEN <<Head(shapes).points>> ELSE <<>>)
         \o LinesOf(Tail(shapes), layer)

\* render_symbol: `for points in Self::merge_lines(lines)`
RECURSIVE RenderLines(_, _, _, _, _)
RenderLines(page, template, layer, ls, idx) ==
    IF ls = <<>> THEN [page |-> page, idx |-> idx]
    ELSE RenderLines(render_shape([layer |-> layer, points |-> Head(ls)], page,
                                  gen_obj_id(template, layer, idx), FALSE),
                     template, layer, Tail(ls), idx + 1)

\* render_symbol: `for (layer, lines) in [...]`, from group g on
RECURSIVE RenderGroups(_, _, _, _)
RenderGroups(page, template, g, idx) ==
    IF g > Len(LayerGroups) THEN page
    ELSE LET r == RenderLines(page, template, LayerGroups[g],
                              merge_lines(LinesOf(template.shapes, LayerGroups[g])), idx)
         IN  RenderGroups(r.page, template, g + 1, r.idx)

\* render_symbol, for a symbol whose shapes are lines
render_symbol(style, page, template) ==
    LET r == init_layers(style, page)
    IN  IF ~r.ok THEN r ELSE Ok(RenderGroups(Unwrap(r.val), template, 1, 0))

-----------------------------------------------------------------------------
(* Renderer: the .drawio text.  An element is the record of what its tag    *)
(* and attributes carry; a diagram has a name and the cells of its root.    *)

\* Geometry::xml: the edge form when source and target are set, with the
\* two named points and then the Array of the intermediate points
GeometryXml(g) ==
    IF IsSome(g.source_point) /\ IsSome(g.target_point)
    THEN [x |-> None, y |-> None,
          width |-> Some(g.bounding_box.width), height |-> Some(g.bounding_box.height),
          points |->
              <<[x |-> Unwrap(g.source_point)[1], y |-> Unwrap(g.source_point)[2],
                 as |-> "sourcePoint"],
                [x |-> Unwrap(g.target_point)[1], y |-> Unwrap(g.target_point)[2],
                 as |-> "targetPoint"]>>
              \o [q \in 1..Len(g.intermediate_points) |->
                     [x |-> g.intermediate_points[q][1],
                      y |-> g.intermediate_points[q][2], as |-> ""]]]
    ELSE [x |-> Some(g.bounding_box.min_x), y |-> Some(g.bounding_box.min_y),
          width |-> Some(g.bounding_box.width), height |-> Some(g.bounding_box.height),
          points |-> <<>>]

\* DiagramObject::xml: XMLBase::xml writes a self-closing mxCell; Edge::xml
\* an mxCell with value, edge="1" and a parent ("1" when it has none), inside
\* a UserObject that carries the id when the edge has a tag
ObjectXml(d) ==
    IF d.kind = "XmlBase"
    THEN [selfclosing |-> TRUE, user_object |-> FALSE, id |-> d.id,
          parent |-> d.xml_parent, value |-> d.value, tags |-> None,
          geometry |-> None]
    ELSE [selfclosing |-> FALSE, user_object |-> IsSome(d.tag), id |-> d.id,
          parent |-> Some(IF IsSome(d.xml_parent) THEN Unwrap(d.xml_parent) ELSE <<"1">>),
          value |-> Some(IF IsSome(d.value) THEN Unwrap(d.value) ELSE <<>>),
          tags |-> d.tag,
          geometry |-> Some(GeometryXml(Unwrap(d.geometry)))]

\* DrawFile::xml of a file with one page
FileXml(name, page) ==
    <<[name |-> Some(name), cells |-> [q \in 1..Len(page) |-> ObjectXml(page[q])]]>>

\* parse_xml_to_object: the mxPoint elements, in order
RECURSIVE ParsePoints(_, _)
ParsePoints(pts, g) ==
    IF pts = <<>> THEN g
    ELSE LET pt == <<Head(pts).x, Head(pts).y>>
         IN  ParsePoints(Tail(pts),
                 CASE Head(pts).as = "sourcePoint" -> [g EXCEPT !.source_point = Some(pt)]
                   [] Head(pts).as = "targetPoint" -> [g EXCEPT !.target_point = Some(pt)]
                   [] OTHER -> [g EXCEPT !.intermediate_points = Append(@, pt)])

\* parse_xml_to_object of an element with edge="1": Edge::new, then what the
\* element carries
parse_xml_to_object(el) ==
    LET x == Unwrap(el.geometry)
        g0 == [bounding_box |-> [min_x |-> 0, min_y |-> 0, width |-> 120, height |-> 60],
               flip_rotation |-> DefaultFlipRotation,
               intermediate_points |-> <<>>,
               target_point |-> None,
               source_point |-> None]
        g1 == ParsePoints(x.points, g0)
        g2 == IF IsSome(x.width)
              THEN [g1 EXCEPT !.bounding_box.width = Unwrap(x.width)] ELSE g1
        g3 == IF IsSome(x.height)
              THEN [g2 EXCEPT !.bounding_box.height = Unwrap(x.height)] ELSE g2
    IN  [kind |-> "Edge", id |-> el.id,
         xml_parent |-> Some(IF IsSome(el.parent) THEN Unwrap(el.parent) ELSE <<"1">>),
         value |-> el.value, tag |-> el.tags, geometry |-> Some(g3),
         justify |-> None]

\* parse_drawio_file: the objects of a diagram are its mxCell and UserObject
\* elements with a start tag; a self-closing mxCell is passed over
RECURSIVE ParseCells(_)
ParseCells(cells) ==
    IF cells = <<>> THEN <<>>
    ELSE (IF Head(cells).selfclosing THEN <<>> ELSE <<parse_xml_to_object(Head(cells))>>)
         \o ParseCells(Tail(cells))

\* IndexMap::insert: a new key goes last, a known key keeps its place
IndexMapInsert(m, key, val) ==
    IF \E q \in 1..Len(m) : m[q].key = key
    THEN [q \in 1..Len(m) |-> IF m[q].key = key THEN [key |-> key, val |-> val] ELSE m[q]]
    ELSE Append(m, [key |-> key, val |-> val])

\* IndexMap::get
IndexMapGet(m, key) ==
    IF \E q \in 1..Len(m) : m[q].key = key
    THEN Some((CHOOSE e \in {m[q] : q \in 1..Len(m)} : e.key = key).val)
    ELSE None

\* parse_drawio_file: a diagram with a name makes a page; every Edge has no
\* bounding box, so the union kept as origin_bounding_box stays the empty box
RECURSIVE ParseDiagrams(_, _)
ParseDiagrams(content, pages) ==
    IF content = <<>> THEN pages
    ELSE ParseDiagrams(Tail(content),
             IF IsSome(Head(content).name)
             THEN IndexMapInsert(pages, Unwrap(Head(content).name),
                      [objects |-> ParseCells(Head(content).cells),
                       origin_bounding_box |->
                           [min_x |-> 0, min_y |-> 0, width |-> 0, height |-> 0]])
             ELSE pages)

parse_drawio_file(content) == Ok(ParseDiagrams(content, <<>>))

\* IndexMap::pop: the last entry, if any
PopPage(pages) == IF pages = <<>> THEN None ELSE Some(Last(pages))

\* mutant: the wires are not told apart by net, all go under the first net
ShapesByNet_OneNet(ws, m) ==
    LET long == SelectSeq(ws, LAMBDA w : Len(w.points) >= 2)
    IN  IF long = <<>> THEN m
        ELSE (long[1].net :> [q \in 1..Len(long) |-> long[q].points])

\* wires_to_shapes_by_net: `entry(net).or_insert_with(Vec::new).push(points)`
\* for every wire of two points or more
RECURSIVE ShapesByNet(_, _)
ShapesByNet(ws, m) ==
    IF ws = <<>> THEN m
    ELSE LET w == Head(ws)
         IN  ShapesByNet(Tail(ws),
                 IF Len(w.points) >= 2
                 THEN (IF w.net \in DOMAIN m
                       THEN [m EXCEPT ![w.net] = Append(@, w.points)]
                       ELSE m @@ (w.net :> <<w.points>>))
                 ELSE m)

wires_to_shapes_by_net(ws) == ShapesByNet(ws, <<>>)

-----------------------------------------------------------------------------
(* Renderer: the operations on whole files *)

\* render_symbols_file: the map over schematic.symbols collected into a
\* Result, which stops at the first symbol that fails
RECURSIVE RenderSymbols(_, _, _)
RenderSymbols(style, syms, contexts) ==
    IF syms = <<>> THEN Ok(contexts)
    ELSE LET template == Head(syms)
             name == template.lib \o <<"/">> \o template.cell
             r == render_symbol(style, NewPage, template)
         IN  IF ~r.ok THEN r
             ELSE RenderSymbols(style, Tail(syms),
                      IndexMapInsert(contexts, <<template.lib, template.cell>>,
                                     FileXml(name, Unwrap(r.val))))

render_symbols_file(style, syms) == RenderSymbols(style, syms, <<>>)

\* update_style: the page is parsed first, the layers of new_style are made
\* next, and the objects follow; an Edge keeps its id, parent and geometry
update_style(content, new_style) ==
    LET parsed == parse_drawio_file(content)
        popped == PopPage(Unwrap(parsed.val))
        r == init_layers(new_style, NewPage)
    IN  IF ~parsed.ok THEN parsed
        ELSE IF ~IsSome(popped) THEN Err(NoPage)
        ELSE IF ~r.ok THEN r
        ELSE Ok(FileXml(Unwrap(popped).key, Unwrap(r.val) \o Unwrap(popped).val.objects))

\* mutant: a symbol file without a page is passed over
ParseSymbols_SkipsPageless(contents, q, pages) ==
    LET kept == SelectSeq(contents, LAMBDA c : PopPage(Unwrap(parse_drawio_file(c.val).val)) # None)
    IN  Ok([r \in 1..Len(kept) |->
               [key |-> kept[r].key,
                val |-> Unwrap(PopPage(Unwrap(parse_drawio_file(kept[r].val).val))).val]])

\* render_schematic_file, the loop over symbols_content from entry q on
RECURSIVE ParseSymbols(_, _, _)
ParseSymbols(contents, q, pages) ==
    IF q > Len(contents) THEN Ok(pages)
    ELSE LET parsed == parse_drawio_file(contents[q].val)
             popped == PopPage(Unwrap(parsed.val))
         IN  IF ~parsed.ok THEN parsed
             ELSE IF IsSome(popped)
             THEN ParseSymbols(contents, q + 1,
                               IndexMapInsert(pages, contents[q].key, Unwrap(popped).val))
             ELSE Err(SymbolNotFound(contents[q].key[1], contents[q].key[2]))

\* mutant: a failed object is left out and the loop goes on
TransformCalls_SkipsFailed(o, off, inst, cell, objs) ==
    [q \in 1..Len(objs) |-> new_obj(o, off, inst, cell, objs[q])]

\* render_schematic_file, `for obj in &symbol_page_data.objects`: what the
\* calls of new_obj return, up to and with the first that fails
RECURSIVE TransformCalls(_, _, _, _, _)
TransformCalls(o, off, inst, cell, objs) ==
    IF objs = <<>> THEN <<>>
    ELSE LET r == new_obj(o, off, inst, cell, Head(objs))
         IN  IF r.ok THEN <<r>> \o TransformCalls(o, off, inst, cell, Tail(objs))
             ELSE <<r>>

\* the objects that add_object received
RECURSIVE AddedObjects(_)
AddedObjects(rs) ==
    IF rs = <<>> THEN <<>>
    ELSE (IF Head(rs).ok THEN <<Unwrap(Head(rs).val)>> ELSE <<>>) \o AddedObjects(Tail(rs))

\* mutant: the counter starts again with every net
RECURSIVE RenderWires_CountsPerNetFrom(_, _, _, _, _)
RenderWires_CountsPerNetFrom(page, net, ls, counter, own) ==
    IF ls = <<>> THEN [page |-> page, counter |-> counter]
    ELSE RenderWires_CountsPerNetFrom(
             render_shape([layer |-> "wire", points |-> Head(ls)], page,
                          gen_wire_id(net, own + 1), FALSE),
             net, Tail(ls), counter + 1, own + 1)

RenderWires_CountsPerNet(page, net, ls, counter) ==
    RenderWires_CountsPerNetFrom(page, net, ls, counter, 0)

\* render_schematic_file, `for points in merged_lines`: wire_counter += 1
\* and the line rendered on the wire layer
RECURSIVE RenderWires(_, _, _, _)
RenderWires(page, net, ls, counter) ==
    IF ls = <<>> THEN [page |-> page, counter |-> counter]
    ELSE RenderWires(render_shape([layer |-> "wire", points |-> Head(ls)], page,
                                  gen_wire_id(net, counter + 1), FALSE),
                     net, Tail(ls), counter + 1)

-----------------------------------------------------------------------------
(* Renderer: the schematics, styles and files of the model *)

\* the most symbol files, instances and wires of a schematic, together
MaxRecords == 3

\* LayerStyles::default, and two orders that repeat a layer
DefaultLayerOrder == <<"text", "pin", "wire", "annotate", "instance", "device">>

LayerOrders ==
    {DefaultLayerOrder,
     <<"wire", "wire", "pin", "instance", "device", "text">>,
     <<"pin", "pin", "text", "device", "wire", "wire">>}

LayerStylesSet == {[layer_order |-> order] : order \in LayerOrders}

DefaultLayerStyles == [layer_order |-> DefaultLayerOrder]

SymbolKeys == {<<<<"libA">>, <<"cellA">>>>, <<<<"libA">>, <<"cellB">>>>}

\* the shapes of a Symbol: one line; two lines that merge into one; a line
\* of three points and a line of a single point
ShapeLists ==
    {<<[layer |-> "device", points |-> <<<<0, 0>>, <<1, 0>>>>]>>,
     <<[layer |-> "device", points |-> <<<<0, 0>>, <<1, 0>>>>],
       [layer |-> "device", points |-> <<<<1, 0>>, <<1, 1>>>>]>>,
     <<[layer |-> "device", points |-> <<<<0, 0>>, <<1, 0>>, <<1, 1>>>>],
       [layer |-> "pin", points |-> <<<<0, 1>>>>]>>}

Templates == {[lib |-> key[1], cell |-> key[2], shapes |-> shapes] :
                  key \in SymbolKeys, shapes \in ShapeLists}

\* the symbol lists of render_symbols_file: up to two symbols
TemplateLists ==
    {<<>>} \cup {<<t>> : t \in Templates} \cup {<<t, u>> : t \in Templates, u \in Templates}

\* a symbol file that render_symbols_file wrote under the default style
RenderedContent(template) ==
    Unwrap(render_symbols_file(DefaultLayerStyles, <<template>>).val)[1].val

\* a symbol file edited by hand: two lines with the ids "x" and "a-x"
EditedContent(key) ==
    FileXml(key[1] \o <<"/">> \o key[2],
            render_shape([layer |-> "device", points |-> <<<<0, 0>>, <<1, 0>>>>],
                render_shape([layer |-> "device", points |-> <<<<0, 0>>, <<0, 1>>>>],
                             Unwrap(init_layers(DefaultLayerStyles, NewPage).val),
                             <<"x">>, FALSE),
                <<"a", "-", "x">>, FALSE))

\* the files of a symbol: one without a page, the rendered ones, the edited one
SymbolContents(key) ==
    {<<>>, EditedContent(key)}
    \cup {RenderedContent(t) : t \in {u \in Templates : <<u.lib, u.cell>> = key}}

RenderInstNames == {<<"U1">>, <<"U1", "-", "a">>}
Placements == {<<2, 3>>}
RenderOrients == {"R0", "MX"}

Instances ==
    {[name |-> name, lib |-> key[1], cell |-> key[2], x |-> at[1], y |-> at[2],
      orient |-> o] :
         name \in RenderInstNames, key \in SymbolKeys, at \in Placements,
         o \in RenderOrients}

\* two net names that gen_wire_id gives the same safe_net, "B_1"
NetNames == {<<"B", "_", "1">>, <<"B", "-", "1">>}
WirePoints == {<<0, 0>>, <<1, 0>>, <<2, 0>>}

\* the point lists of a Wire: every segment between two neighbouring points,
\* in both directions, and a list of a single point
WirePointLists ==
    {<<<<0, 0>>>>}
    \cup {seg \in WirePoints \X WirePoints : Abs(seg[1][1] - seg[2][1]) = 1}

Wires == {[net |-> net, points |-> pts] : net \in NetNames, pts \in WirePointLists}

\* the most points of a polygon
MaxPolygonPoints == 3

\* Shape::Polygon on the device layer, outlined: two points or more, each
\* on a grid of three by three
Polygons ==
    {[layer |-> "device", fill_style |-> 1, points |-> pts] :
         pts \in UNION {[1..n -> (0..2) \X (0..2)] : n \in 2..MaxPolygonPoints}}

-----------------------------------------------------------------------------
(* Renderer: the machine.  A schematic is put together, a Renderer is made  *)
(* of it with a style, and one operation runs; render_schematic_file runs   *)
(* an instance and a net at a step.                                         *)

renderInput == <<symbols_content, instances, wires>>

renderLocals == <<symbol_pages, schematic_page, cursor, wires_by_net, wire_counter, calls>>

InitRender ==
    /\ MergeIdle
    /\ TransformIdle
    /\ TreeIdle
    /\ rpc = "build"
    /\ layer_styles = <<>>
    /\ symbols_content = <<>>
    /\ instances = <<>>
    /\ wires = <<>>
    /\ symbol_pages = <<>>
    /\ schematic_page = <<>>
    /\ cursor = 0
    /\ wires_by_net = <<>>
    /\ wire_counter = 0
    /\ calls = <<>>
    /\ render_op = "none"
    /\ render_arg = <<>>
    /\ output = <<>>

Records == Len(symbols_content) + Len(instances) + Len(wires)

\* a symbol file is loaded: SymbolContexts is an IndexMap, a key occurs once
AddSymbol ==
    /\ rpc = "build"
    /\ Records < MaxRecords
    /\ instances = <<>>
    /\ wires = <<>>
    /\ \E key \in SymbolKeys :
           /\ \A q \in 1..Len(symbols_content) : symbols_content[q].key # key
           /\ \E content \in SymbolContents(key) :
                  symbols_content' = Append(symbols_content, [key |-> key, val |-> content])
    /\ UNCHANGED <<rpc, layer_styles, instances, wires, renderLocals, render_op,
                   render_arg, output>>
    /\ UNCHANGED <<mergeVars, transformVars, treeVars>>

\* schematic.instances gets an Instance
AddInstance ==
    /\ rpc = "build"
    /\ Records < MaxRecords
    /\ wires = <<>>
    /\ \E instance \in Instances : instances' = Append(instances, instance)
    /\ UNCHANGED <<rpc, layer_styles, symbols_content, wires, renderLocals, render_op,
                   render_arg, output>>
    /\ UNCHANGED <<mergeVars, transformVars, treeVars>>

\* schematic.wires gets a Wire
AddWire ==
    /\ rpc = "build"
    /\ Records < MaxRecords
    /\ \E wire \in Wires : wires' = Append(wires, wire)
    /\ UNCHANGED <<rpc, layer_styles, symbols_content, instances, renderLocals,
                   render_op, render_arg, output>>
    /\ UNCHANGED <<mergeVars, transformVars, treeVars>>

\* an operation returns
RenderReturns(r) ==
    /\ rpc' = "returned"
    /\ output' = r

\* render_schematic_file up to the loop over the instances: the symbol files
\* are parsed, the page is made and init_layers runs
RenderSchematicFile ==
    /\ rpc = "build"
    /\ \E style \in LayerStylesSet :
           LET parsed == ParseSymbols(symbols_content, 1, <<>>)
               layered == init_layers(style, NewPage)
           IN  /\ layer_styles' = style
               /\ render_op' = "render_schematic_file"
               /\ IF ~parsed.ok
                  THEN RenderReturns(parsed) /\ UNCHANGED <<symbol_pages, schematic_page, cursor>>
                  ELSE /\ symbol_pages' = Unwrap(parsed.val)
                       /\ IF ~layered.ok
                          THEN RenderReturns(layered) /\ UNCHANGED <<schematic_page, cursor>>
                          ELSE /\ schematic_page' = Unwrap(layered.val)
                               /\ cursor' = 1
                               /\ rpc' = "instances"
                               /\ UNCHANGED output
    /\ UNCHANGED <<renderInput, wires_by_net, wire_counter, calls, render_arg>>
    /\ UNCHANGED <<mergeVars, transformVars, treeVars>>

\* render_schematic_file: one turn of `for instance in &self.schematic.instances`
InstanceStep ==
    /\ rpc = "instances"
    /\ cursor <= Len(instances)
    /\ LET instance == instances[cursor]
           found == IndexMapGet(symbol_pages, <<instance.lib, instance.cell>>)
           rs == TransformCalls(instance.orient,
                                <<instance.x * SCALE, -instance.y * SCALE>>,
                                instance.name, instance.cell, Unwrap(found).objects)
       IN  IF ~IsSome(found)
           THEN /\ RenderReturns(Err(SymbolNotFound(instance.lib, instance.cell)))
                /\ UNCHANGED <<schematic_page, cursor, calls>>
           ELSE /\ calls' = calls \o [q \in 1..Len(rs) |->
                                         [instance |-> cursor, result |-> rs[q]]]
                /\ schematic_page' = schematic_page \o AddedObjects(rs)
                /\ IF rs # <<>> /\ ~Last(rs).ok
                   THEN RenderReturns(FromDrawrs(Last(rs))) /\ UNCHANGED cursor
                   ELSE cursor' = cursor + 1 /\ UNCHANGED <<rpc, output>>
    /\ UNCHANGED <<layer_styles, renderInput, symbol_pages, wires_by_net, wire_counter,
                   render_op, render_arg>>
    /\ UNCHANGED <<mergeVars, transformVars, treeVars>>

\* render_schematic_file: the instances are done; the wires are grouped by
\* net and the counter starts
WiresByNet ==
    /\ rpc = "instances"
    /\ cursor > Len(instances)
    /\ rpc' = "wires"
    /\ wires_by_net' = wires_to_shapes_by_net(wires)
    /\ wire_counter' = 0
    /\ UNCHANGED <<layer_styles, renderInput, symbol_pages, schematic_page, cursor, calls,
                   render_op, render_arg, output>>
    /\ UNCHANGED <<mergeVars, transformVars, treeVars>>

\* render_schematic_file: one turn of `for (net_name, lines) in wires_by_net`;
\* a HashMap yields its entries in an order of its own, any net may be next
WireNetStep ==
    /\ rpc = "wires"
    /\ \E net \in DOMAIN wires_by_net :
           LET r == RenderWires(schematic_page, net, merge_lines(wires_by_net[net]),
                                wire_counter)
           IN  /\ schematic_page' = r.page
               /\ wire_counter' = r.counter
               /\ wires_by_net' = [other \in DOMAIN wires_by_net \ {net} |->
                                      wires_by_net[other]]
    /\ UNCHANGED <<rpc, layer_styles, renderInput, symbol_pages, cursor, calls, render_op,
                   render_arg, output>>
    /\ UNCHANGED <<mergeVars, transformVars, treeVars>>

\* render_schematic_file: the nets are done (the schematic of the model has
\* no pins, labels or shapes); the page is added to the file and written
RenderSchematicDone ==
    /\ rpc = "wires"
    /\ DOMAIN wires_by_net = {}
    /\ RenderReturns(Ok(FileXml(<<"design">>, schematic_page)))
    /\ UNCHANGED <<layer_styles, renderInput, renderLocals, render_op, render_arg>>
    /\ UNCHANGED <<mergeVars, transformVars, treeVars>>

\* render_symbols_file of a Renderer whose schematic has the symbols `syms`
RenderSymbolsFile ==
    /\ rpc = "build"
    /\ Records = 0
    /\ \E style \in LayerStylesSet, syms \in TemplateLists :
           /\ layer_styles' = style
           /\ render_op' = "render_symbols_file"
           /\ render_arg' = syms
           /\ RenderReturns(render_symbols_file(style, syms))
    /\ UNCHANGED <<renderInput, renderLocals>>
    /\ UNCHANGED <<mergeVars, transformVars, treeVars>>

\* update_style of a symbol file to the style new_style
UpdateStyle ==
    /\ rpc = "build"
    /\ Records = 0
    /\ \E new_style \in LayerStylesSet, key \in SymbolKeys :
           \E content \in SymbolContents(key) :
               /\ layer_styles' = new_style
               /\ render_op' = "update_style"
               /\ render_arg' = content
               /\ RenderReturns(update_style(content, new_style))
    /\ UNCHANGED <<renderInput, renderLocals>>
    /\ UNCHANGED <<mergeVars, transformVars, treeVars>>

\* render_shape of a Shape::Polygon onto a new page
RenderPolygon ==
    /\ rpc = "build"
    /\ Records = 0
    /\ \E polygon \in Polygons :
           /\ render_op' = "render_shape"
           /\ render_arg' = polygon
           /\ RenderReturns(Ok(render_polygon(polygon, NewPage, <<"polygon">>, FALSE)))
    /\ UNCHANGED <<layer_styles, renderInput, renderLocals>>
    /\ UNCHANGED <<mergeVars, transformVars, treeVars>>

NextRender ==
    \/ AddSymbol
    \/ AddInstance
    \/ AddWire
    \/ RenderSchematicFile
    \/ InstanceStep
    \/ WiresByNet
    \/ WireNetStep
    \/ RenderSchematicDone
    \/ RenderSymbolsFile
    \/ UpdateStyle
    \/ RenderPolygon

SpecRender == InitRender /\ [][NextRender]_vars

-----------------------------------------------------------------------------
(* Renderer: claims *)

\* C11: when a call of new_obj fails in render_schematic_file, it is the
\* last call made, the operation has returned, and what it returned is that
\* error and no canvas: nothing of that instance or of the instances before it
\* comes out
C11_AllOrNothing ==
    \A q \in 1..Len(calls) :
        ~calls[q].result.ok =>
            /\ q = Len(calls)
            /\ rpc = "returned"
            /\ ~output.ok
            /\ output.val = None
            /\ output.err = Some(<<"Drawrs", Unwrap(calls[q].result.err)>>)

\* an instance was rendered onto the page and then a later instance failed
C11_Witness ==
    /\ rpc = "returned"
    /\ render_op = "render_schematic_file"
    /\ calls # <<>>
    /\ ~Last(calls).result.ok
    /\ Last(calls).instance = 2
    /\ calls[1].instance = 1
    /\ \E q \in 1..Len(schematic_page) :
           /\ schematic_page[q].kind = "Edge"
           /\ schematic_page[q].tag = Some(instances[1].name)
    /\ ~output.ok

\* the ids of the objects that instance a put on the page
EmittedIds(a) ==
    {Unwrap(calls[q].result.val).id :
         q \in {r \in 1..Len(calls) : calls[r].instance = a /\ calls[r].result.ok}}

\* the ids of the objects of the symbol page of instance a
SymbolObjectIds(a) ==
    LET found == IndexMapGet(symbol_pages, <<instances[a].lib, instances[a].cell>>)
    IN  IF IsSome(found)
        THEN {Unwrap(found).objects[q].id : q \in 1..Len(Unwrap(found).objects)}
        ELSE {}

\* C16: when the instances have pairwise distinct names and are all of the
\* same symbol, every id an instance puts on the page is its name, "-" and
\* the id of an object of the symbol, and no id is put there by two instances
C16_DisjointIds ==
    (/\ rpc \in {"instances", "wires", "returned"}
     /\ \A a, b \in 1..Len(instances) :
            /\ a # b => instances[a].name # instances[b].name
            /\ instances[a].lib = instances[b].lib
            /\ instances[a].cell = instances[b].cell)
    => /\ \A a \in 1..Len(instances) : \A id \in EmittedIds(a) :
              \E sid \in SymbolObjectIds(a) : id = instances[a].name \o <<"-">> \o sid
       /\ \A a, b \in 1..Len(instances) :
              a # b => EmittedIds(a) \cap EmittedIds(b) = {}

\* where the claim puts the point pt of a symbol whose instance is at (x, y)
CanvasPoint(pt, x, y) == <<200 * pt[1] + 200 * x, -200 * pt[2] - 200 * y>>

\* the cells of the canvas that render_schematic_file returned
OutputCells == Unwrap(output.val)[1].cells

\* the points of a cell of the canvas
CellPoints(cell) ==
    IF IsSome(cell.geometry)
    THEN {<<Unwrap(cell.geometry).points[q].x, Unwrap(cell.geometry).points[q].y>> :
              q \in 1..Len(Unwrap(cell.geometry).points)}
    ELSE {}

\* the symbols whose file, as render_symbols_file writes it, instance a uses
TemplatesOf(a) ==
    {t \in Templates :
         /\ t.lib = instances[a].lib
         /\ t.cell = instances[a].cell
         /\ \E q \in 1..Len(symbols_content) :
                /\ symbols_content[q].key = <<t.lib, t.cell>>
                /\ symbols_content[q].val = RenderedContent(t)}

\* the point pt of a symbol of instance a is on the canvas where the claim
\* puts it, on a cell named after the instance and an object of the symbol
PlacedOnCanvas(a, pt) ==
    \E q \in 1..Len(OutputCells) :
        /\ \E sid \in SymbolObjectIds(a) :
               OutputCells[q].id = instances[a].name \o <<"-">> \o sid
        /\ CanvasPoint(pt, instances[a].x, instances[a].y) \in CellPoints(OutputCells[q])

SchematicRendered ==
    rpc = "returned" /\ render_op = "render_schematic_file" /\ output.ok

\* C17 as stated: on the canvas of an instance with orientation R0 at (x, y),
\* every point (px, py) of every Line of the symbol is at
\* (200*px + 200*x, -200*py - 200*y) on a cell whose id is the instance name,
\* "-" and the id of a symbol object
C17_EveryLinePlaced ==
    SchematicRendered =>
        \A a \in 1..Len(instances) :
            instances[a].orient = "R0" =>
                \A t \in TemplatesOf(a) : \A q \in 1..Len(t.shapes) :
                    \A r \in 1..Len(t.shapes[q].points) :
                        PlacedOnCanvas(a, t.shapes[q].points[r])

\* C17, amended: the same of every point of every Line that has at least two
\* points; and the line (0,0)-(1,0) of an instance U1 at (2,3) is one cell
\* with the source (400,-600) and the target (600,-600)
C17_LinePlaced ==
    SchematicRendered =>
        \A a \in 1..Len(instances) :
            instances[a].orient = "R0" =>
                \A t \in TemplatesOf(a) :
                    /\ \A q \in 1..Len(t.shapes) :
                           Len(t.shapes[q].points) >= 2 =>
                               \A r \in 1..Len(t.shapes[q].points) :
                                   PlacedOnCanvas(a, t.shapes[q].points[r])
                    /\ (/\ instances[a].name = <<"U1">>
                        /\ <<instances[a].x, instances[a].y>> = <<2, 3>>
                        /\ t.shapes = <<[layer |-> "device",
                                         points |-> <<<<0, 0>>, <<1, 0>>>>]>>)
                       => \E q \in 1..Len(OutputCells) :
                              /\ OutputCells[q].id =
                                     <<"U1", "-">> \o t.lib \o <<"/">> \o t.cell
                                     \o <<"-", "device", "-", "0">>
                              /\ Unwrap(OutputCells[q].geometry).points =
                                     <<[x |-> 400, y |-> -600, as |-> "sourcePoint"],
                                       [x |-> 600, y |-> -600, as |-> "targetPoint"]>>

\* a canvas with an R0 instance away from the origin whose symbol has a line
\* off the X axis
C17_Witness ==
    /\ SchematicRendered
    /\ \E a \in 1..Len(instances) :
           /\ instances[a].orient = "R0"
           /\ <<instances[a].x, instances[a].y>> = <<2, 3>>
           /\ \E t \in TemplatesOf(a) : Len(t.shapes) = 2
           /\ PlacedOnCanvas(a, <<1, 1>>)

\* the layers that occur twice in layer_order
RepeatedLayers(order) ==
    {order[q] : q \in {r \in 1..Len(order) : \E t \in 1..Len(order) : t # r /\ order[t] = order[r]}}

\* C18: an operation on a style whose layer_order repeats a layer returns
\* RepeatLayer with a repeated layer, and has rendered no shape, instance or
\* wire object by then
C18_RepeatAlwaysFails ==
    (/\ rpc = "returned"
     /\ RepeatedLayers(layer_styles.layer_order) # {})
    => /\ \E layer \in RepeatedLayers(layer_styles.layer_order) :
              output = [ok |-> FALSE, val |-> None, err |-> Some(<<"RepeatLayer", layer>>)]
       /\ calls = <<>>
       /\ wire_counter = 0
       /\ \A q \in 1..Len(schematic_page) : schematic_page[q].kind # "Edge"

\* a symbol file has no page: none of its diagrams has a name
Pageless(content) == \A q \in 1..Len(content) : ~IsSome(content[q].name)

\* the keys of the loaded symbol files
LoadedKeys == {symbols_content[q].key : q \in 1..Len(symbols_content)}

\* instance a names a (lib, cell) pair that no loaded symbol file has
ReferencesAbsent(a) == <<instances[a].lib, instances[a].cell>> \notin LoadedKeys

\* the error SymbolNotFound with the name "lib/cell"
NotFoundNamed(lib, cell) ==
    [ok |-> FALSE, val |-> None, err |-> Some(<<"SymbolNotFound", lib \o <<"/">> \o cell>>)]

SchematicReturned == rpc = "returned" /\ render_op = "render_schematic_file"

\* C19 as stated: render_schematic_file returns SymbolNotFound with
\* "lib/cell" when an instance names a pair that is not loaded, and returns
\* SymbolNotFound in that case only
C19_OnlyMissingReference ==
    SchematicReturned =>
        /\ (\E a \in 1..Len(instances) : ReferencesAbsent(a))
           => \E a \in 1..Len(instances) :
                  /\ ReferencesAbsent(a)
                  /\ output = NotFoundNamed(instances[a].lib, instances[a].cell)
        /\ (~output.ok /\ Unwrap(output.err)[1] = "SymbolNotFound")
           => \E a \in 1..Len(instances) :
                  /\ ReferencesAbsent(a)
                  /\ output = NotFoundNamed(instances[a].lib, instances[a].cell)

\* C19, amended: the first loaded symbol file without a page makes the call
\* return SymbolNotFound with its name, referenced or not; with a page in
\* every file, no layer repeated and no call of new_obj failed, the first
\* instance that names a pair not loaded makes it return SymbolNotFound with
\* that pair; and SymbolNotFound is returned in these two cases only
C19_MissingPageOrReference ==
    SchematicReturned =>
        /\ \A q \in 1..Len(symbols_content) :
               (/\ Pageless(symbols_content[q].val)
                /\ \A r \in 1..(q - 1) : ~Pageless(symbols_content[r].val))
               => output = NotFoundNamed(symbols_content[q].key[1], symbols_content[q].key[2])
        /\ \A a \in 1..Len(instances) :
               (/\ \A q \in 1..Len(symbols_content) : ~Pageless(symbols_content[q].val)
                /\ RepeatedLayers(layer_styles.layer_order) = {}
                /\ \A q \in 1..Len(calls) : calls[q].result.ok
                /\ ReferencesAbsent(a)
                /\ \A b \in 1..(a - 1) : ~ReferencesAbsent(b))
               => output = NotFoundNamed(instances[a].lib, instances[a].cell)
        /\ (~output.ok /\ Unwrap(output.err)[1] = "SymbolNotFound")
           => \/ \E q \in 1..Len(symbols_content) :
                     /\ Pageless(symbols_content[q].val)
                     /\ output = NotFoundNamed(symbols_content[q].key[1],
                                               symbols_content[q].key[2])
              \/ \E a \in 1..Len(instances) :
                     /\ ReferencesAbsent(a)
                     /\ output = NotFoundNamed(instances[a].lib, instances[a].cell)

\* SymbolNotFound for a loaded file without a page that no instance names,
\* in a schematic that has an instance
C19_Witness ==
    /\ SchematicReturned
    /\ instances # <<>>
    /\ \E q \in 1..Len(symbols_content) :
           /\ Pageless(symbols_content[q].val)
           /\ \A a \in 1..Len(instances) :
                  <<instances[a].lib, instances[a].cell>> # symbols_content[q].key
           /\ output = NotFoundNamed(symbols_content[q].key[1], symbols_content[q].key[2])

\* the wires of a net that have two points or more, as point lists, in order
NetLines(net) ==
    LET own == SelectSeq(wires, LAMBDA w : w.net = net /\ Len(w.points) >= 2)
    IN  [q \in 1..Len(own) |-> own[q].points]

\* the lines rendered for the wires: the edges of the page that carry no
\* instance tag, each as its path from source to target
WireEdges == SelectSeq(schematic_page, LAMBDA d : d.kind = "Edge" /\ d.tag = None)

EdgePath(d) ==
    <<Unwrap(Unwrap(d.geometry).source_point)>>
    \o Unwrap(d.geometry).intermediate_points
    \o <<Unwrap(Unwrap(d.geometry).target_point)>>

\* a schematic polyline as a path on the canvas
CanvasPath(line) == [q \in 1..Len(line) |-> <<200 * line[q][1], -200 * line[q][2]>>]

\* the step from u to v of a path is a Wire of the net, in one direction
SegmentOfNet(net, u, v) ==
    \E q \in 1..Len(NetLines(net)) :
        \E r \in 1..(Len(NetLines(net)[q]) - 1) :
            LET path == CanvasPath(NetLines(net)[q])
            IN  <<path[r], path[r + 1]>> \in {<<u, v>>, <<v, u>>}

\* the paths that the wires of one net give when merged without the others
PathsOfNet(net) ==
    {CanvasPath(merge_lines(NetLines(net))[q]) : q \in 1..Len(merge_lines(NetLines(net)))}

\* the lines that the wires of the nets give, each net merged by itself
RECURSIVE MergedCount(_)
MergedCount(nets) ==
    IF nets = {} THEN 0
    ELSE LET net == CHOOSE n \in nets : TRUE
         IN  Len(merge_lines(NetLines(net))) + MergedCount(nets \ {net})

\* C20: every rendered wire line is made of the wires of a single net; the
\* lines rendered are, net by net, what the wires of that net give when
\* merged with no wire of another net there, and as many
C20_MergedPerNet ==
    SchematicRendered =>
        /\ \A q \in 1..Len(WireEdges) :
               \E net \in NetNames :
                   \A r \in 1..(Len(EdgePath(WireEdges[q])) - 1) :
                       SegmentOfNet(net, EdgePath(WireEdges[q])[r],
                                    EdgePath(WireEdges[q])[r + 1])
        /\ {EdgePath(WireEdges[q]) : q \in 1..Len(WireEdges)}
               = UNION {PathsOfNet(net) : net \in NetNames}
        /\ Len(WireEdges) = MergedCount(NetNames)

\* two wires of a net are fused at a point that a wire of another net
\* touches, and that wire stays a line of its own
C20_Witness ==
    /\ SchematicRendered
    /\ Len(wires) = 3
    /\ \E q, r, t \in 1..3 :
           /\ wires[q].net = wires[r].net
           /\ wires[t].net # wires[q].net
           /\ wires[q].points = <<<<0, 0>>, <<1, 0>>>>
           /\ wires[r].points = <<<<1, 0>>, <<2, 0>>>>
           /\ wires[t].points = <<<<1, 0>>, <<0, 0>>>>
    /\ Len(WireEdges) = 2
    /\ \E q \in 1..2 : EdgePath(WireEdges[q]) = <<<<0, 0>>, <<200, 0>>, <<400, 0>>>>

\* the wire loop of render_schematic_file is running or has returned
WiresRendered == rpc = "wires" \/ SchematicRendered

\* C30: the ids of the wire lines of one render_schematic_file call differ
\* from each other, whatever the nets are named: the q-th line rendered has
\* the id of its net with the counter q, one counter for all the nets
C30_WireIdsDistinct ==
    WiresRendered =>
        /\ \A q, r \in 1..Len(WireEdges) : q # r => WireEdges[q].id # WireEdges[r].id
        /\ \A q \in 1..Len(WireEdges) :
               \E net \in NetNames : WireEdges[q].id = gen_wire_id(net, q)
        /\ rpc = "wires" => wire_counter = Len(WireEdges)

\* a line of the net "B_1" and a line of the net "B-1" are rendered
C30_Witness ==
    /\ SchematicRendered
    /\ \E q, r \in 1..Len(wires) :
           /\ wires[q].net = <<"B", "_", "1">>
           /\ wires[r].net = <<"B", "-", "1">>
           /\ Len(wires[q].points) >= 2
           /\ Len(wires[r].points) >= 2
    /\ Len(WireEdges) = 2
    /\ WireEdges[1].id = <<"wire", "-", "B", "_", "1", "-", "1">>
    /\ WireEdges[2].id = <<"wire", "-", "B", "_", "1", "-", "2">>

\* render_shape has returned from a polygon of three points or more; the
\* coordinates that the Object added to the page has
PolygonRendered ==
    rpc = "returned" /\ render_op = "render_shape" /\ Len(render_arg.points) >= 3

EmittedCoords == Last(Unwrap(output.val)).poly_coords

InUnit(v) == 0 <= v[1] /\ v[1] <= v[2]

\* C23 as stated: every emitted coordinate is in [0,1]; if all the points
\* have the same x every emitted x is 0, if they all have the same y every
\* emitted y is 0
C23_FlatGivesZero ==
    PolygonRendered =>
        LET pts == render_arg.points
        IN  /\ Len(EmittedCoords) = Len(pts)
            /\ \A q \in 1..Len(pts) : InUnit(EmittedCoords[q][1]) /\ InUnit(EmittedCoords[q][2])
            /\ (\A q \in 1..Len(pts) : pts[q][1] = pts[1][1])
                   => \A q \in 1..Len(pts) : EmittedCoords[q][1] = <<0, 1>>
            /\ (\A q \in 1..Len(pts) : pts[q][2] = pts[1][2])
                   => \A q \in 1..Len(pts) : EmittedCoords[q][2] = <<0, 1>>

\* C23: every emitted coordinate is in [0,1], x the share of the box width
\* left of the point and y the share of the box height above it; if all the
\* points have the same x every emitted x is 0, if they all have the same y
\* every emitted y is 1
C23_FlatGivesZeroFlipped ==
    PolygonRendered =>
        LET pts == render_arg.points
            xs == {pts[q][1] : q \in 1..Len(pts)}
            ys == {pts[q][2] : q \in 1..Len(pts)}
        IN  /\ Len(EmittedCoords) = Len(pts)
            /\ \A q \in 1..Len(pts) : InUnit(EmittedCoords[q][1]) /\ InUnit(EmittedCoords[q][2])
            /\ \A q \in 1..Len(pts) :
                   /\ \A lo \in xs, hi \in xs :
                          (lo < hi /\ \A w \in xs : lo <= w /\ w <= hi)
                              => EmittedCoords[q][1][1] * (hi - lo)
                                     = EmittedCoords[q][1][2] * (pts[q][1] - lo)
                   /\ \A lo \in ys, hi \in ys :
                          (lo < hi /\ \A w \in ys : lo <= w /\ w <= hi)
                              => EmittedCoords[q][2][1] * (hi - lo)
                                     = EmittedCoords[q][2][2] * (hi - pts[q][2])
            /\ (\A q \in 1..Len(pts) : pts[q][1] = pts[1][1])
                   => \A q \in 1..Len(pts) : EmittedCoords[q][1] = <<0, 1>>
            /\ (\A q \in 1..Len(pts) : pts[q][2] = pts[1][2])
                   => \A q \in 1..Len(pts) : EmittedCoords[q][2] = <<1, 1>>

\* a polygon that lies on the line y = 0: its x go from 0 to 1, its y is 1
C23_Witness ==
    /\ PolygonRendered
    /\ render_arg.points = <<<<0, 0>>, <<2, 0>>, <<1, 0>>>>
    /\ EmittedCoords = <<<<<<0, 1>>, <<1, 1>>>>, <<<<1, 1>>, <<1, 1>>>>, <<<<1, 2>>, <<1, 1>>>>>>

\* the orders in which a HashMap of these nets may yield them
NetOrders(nets) ==
    {order \in [1..Cardinality(nets) -> nets] :
         \A a, b \in 1..Cardinality(nets) : a # b => order[a] # order[b]}

\* the ids and paths of the wire lines when the nets are taken in `order`
RECURSIVE WiresInOrder(_, _, _)
WiresInOrder(by_net, order, counter) ==
    IF order = <<>> THEN {}
    ELSE LET ls == merge_lines(by_net[Head(order)])
         IN  {<<gen_wire_id(Head(order), counter + c), CanvasPath(ls[c])>> : c \in 1..Len(ls)}
             \cup WiresInOrder(by_net, Tail(order), counter + Len(ls))

\* C24: what render_schematic_file returns is given by the schematic alone:
\* the wire lines have the ids and paths they have under every order in
\* which the nets can be iterated
C24_SameIdsInEveryOrder ==
    SchematicRendered =>
        \A order \in NetOrders(DOMAIN wires_to_shapes_by_net(wires)) :
            {<<WireEdges[q].id, EdgePath(WireEdges[q])>> : q \in 1..Len(WireEdges)}
                = WiresInOrder(wires_to_shapes_by_net(wires), order, 0)

-----------------------------------------------------------------------------
(* BinaryNodeObject.  The caller holds an Rc to every node, so a Weak      *)
(* that was set upgrades until it is reset.  A RefCell borrowed twice      *)
(* panics: the call does not return.                                       *)

\* the nodes, by value
Nodes == {"P", "C", "D"}

TooManyChildren == <<"TooManyChildren">>

\* the slot numbers 0 and 1 as positions of <<left, right>>
Slot(index) == index + 1

\* detach_from_old_parent of node: the first slot of its parent that holds
\* it is emptied and its parent link reset
detach_from_old_parent(children, parent, node) ==
    LET old == parent[node]
        at == IF IsSome(old)
              THEN {q \in 1..2 : children[Unwrap(old)][q] = Some(node)}
              ELSE {}
        first == CHOOSE q \in at : \A r \in at : q <= r
    IN  [children |-> IF at = {} THEN children
                      ELSE [children EXCEPT ![Unwrap(old)][first] = None],
         parent |-> [parent EXCEPT ![node] = None]]

\* assign_child on self_rc, which set_left and set_right hold borrowed
\* mutably for the length of the call: the result and the nodes after it;
\* a call that panics has neither Ok nor an error
assign_child(children, parent, index, node, self_rc) ==
    LET unchanged(r) == [result |-> r, children |-> children, parent |-> parent]
        panic == [ok |-> FALSE, val |-> None, err |-> None]
    IN  IF IsSome(node)
        THEN LET new_node == Unwrap(node)
                 existing_count == Cardinality({q \in 1..2 : IsSome(children[self_rc][q])})
                 is_existing == \E q \in 1..2 : children[self_rc][q] = node
             IN  IF existing_count >= 2 /\ ~is_existing
                 THEN unchanged(Err(TooManyChildren))
                 ELSE IF new_node = self_rc \/ parent[new_node] = Some(self_rc)
                 \* detach_from_old_parent borrows self_rc again
                 THEN unchanged(panic)
                 ELSE LET d == detach_from_old_parent(children, parent, new_node)
                          other_index == 1 - index
                          cleared == IF d.children[self_rc][Slot(other_index)] = node
                                     THEN [d.children EXCEPT ![self_rc][Slot(other_index)] = None]
                                     ELSE d.children
                      IN  [result |-> Ok(<<>>),
                           children |-> [cleared EXCEPT ![self_rc][Slot(index)] = node],
                           parent |-> [d.parent EXCEPT ![new_node] = Some(self_rc)]]
        ELSE LET old_child == children[self_rc][Slot(index)]
             IN  IF old_child = Some(self_rc)
                 THEN unchanged(panic)
                 ELSE [result |-> Ok(<<>>),
                       children |-> [children EXCEPT ![self_rc][Slot(index)] = None],
                       parent |-> IF IsSome(old_child)
                                  THEN [parent EXCEPT ![Unwrap(old_child)] = None]
                                  ELSE parent]

\* BinaryNodeObject::new for every node
InitTree ==
    /\ MergeIdle
    /\ TransformIdle
    /\ RenderIdle
    /\ tree_pc = "ready"
    /\ tree_children = [n \in Nodes |-> <<None, None>>]
    /\ tree_parent = [n \in Nodes |-> None]
    /\ tree_call = <<>>
    /\ tree_result = <<>>

\* a call of assign_child through set_left or set_right
SetChild(fn, index, self_rc, node) ==
    LET r == assign_child(tree_children, tree_parent, index, node, self_rc)
    IN  /\ tree_pc' = IF ~r.result.ok /\ r.result.err = None THEN "panicked" ELSE "ready"
        /\ tree_children' = r.children
        /\ tree_parent' = r.parent
        /\ tree_call' = [fn |-> fn, self_rc |-> self_rc, node |-> node,
                         old |-> tree_children[self_rc][Slot(index)]]
        /\ tree_result' = r.result

set_left ==
    /\ tree_pc = "ready"
    /\ \E self_rc \in Nodes, node \in {None} \cup {Some(n) : n \in Nodes} :
           SetChild("set_left", 0, self_rc, node)
    /\ UNCHANGED <<mergeVars, transformVars, renderVars>>

set_right ==
    /\ tree_pc = "ready"
    /\ \E self_rc \in Nodes, node \in {None} \cup {Some(n) : n \in Nodes} :
           SetChild("set_right", 1, self_rc, node)
    /\ UNCHANGED <<mergeVars, transformVars, renderVars>>

NextTree == set_left \/ set_right

SpecTree == InitTree /\ [][NextTree]_vars

\* the node c is in a child slot of the node p
IsChild(p, c) == \E q \in 1..2 : tree_children[p][q] = Some(c)

\* the nodes reached from the nodes of `seen` by child slots, `seen` included
RECURSIVE Reached(_)
Reached(seen) ==
    LET more == seen \cup {c \in Nodes : \E p \in seen : IsChild(p, c)}
    IN  IF more = seen THEN seen ELSE Reached(more)

Descendants(n) == Reached({c \in Nodes : IsChild(n, c)})

\* C25: whatever calls of set_left and set_right have returned, no node is
\* its own descendant
C25_NoNodeItsOwnDescendant ==
    tree_pc = "ready" => \A n \in Nodes : n \notin Descendants(n)

\* C26: whatever calls of set_left and set_right have returned, a node c is
\* in a child slot of p exactly if the parent of c is p, and no node is in
\* two slots; when set_left(p, None) returns Ok, p has no left child, and
\* if it follows set_left(p, Some(c)) then c has no parent
C26_SlotsMatchParents ==
    tree_pc = "ready" =>
        /\ \A p \in Nodes, c \in Nodes : IsChild(p, c) <=> tree_parent[c] = Some(p)
        /\ \A c \in Nodes :
               Cardinality({s \in Nodes \X (1..2) : tree_children[s[1]][s[2]] = Some(c)}) <= 1
        /\ (tree_call # <<>> /\ tree_call.fn = "set_left" /\ tree_call.node = None
                /\ tree_result = Ok(<<>>))
               => /\ tree_children[tree_call.self_rc][1] = None
                  /\ IsSome(tree_call.old) => tree_parent[Unwrap(tree_call.old)] = None

-----------------------------------------------------------------------------
(* XMLBase::xml_ify.  A string is the sequence of its characters.          *)

amp == <<"&", "a", "m", "p", ";">>
lt == <<"&", "l", "t", ";">>
gt == <<"&", "g", "t", ";">>
quot == <<"&", "q", "u", "o", "t", ";">>
apos == <<"&", "a", "p", "o", "s", ";">>

\* XML_ESCAPE_MAP
XML_ESCAPE_MAP ==
    [c \in {">", "<", "&", "\"", "'", "\n", "\t", "\r"} |->
        CASE c = ">" -> gt
          [] c = "<" -> lt
          [] c = "&" -> amp
          [] c = "\"" -> quot
          [] c = "'" -> apos
          [] c = "\n" -> <<"&", "#", "x", "a", ";">>
          [] c = "\t" -> <<"&", "#", "x", "9", ";">>
          [] c = "\r" -> <<"&", "#", "x", "d", ";">>]

\* str::replace: every match of `from`, from the left, none overlapping
RECURSIVE replace(_, _, _)
replace(s, from, to) ==
    IF Len(s) < Len(from) THEN s
    ELSE IF SubSeq(s, 1, Len(from)) = from
    THEN to \o replace(SubSeq(s, Len(from) + 1, Len(s)), from, to)
    ELSE <<Head(s)>> \o replace(Tail(s), from, to)

decode_xml_entities(s) ==
    replace(replace(replace(replace(replace(s, amp, <<"&">>), lt, <<"<">>), gt, <<">">>),
                    quot, <<"\"">>),
            apos, <<"'">>)

RECURSIVE translate_txt(_, _)
translate_txt(string, replacement_dict) ==
    IF string = <<>> THEN <<>>
    ELSE (IF Head(string) \in DOMAIN replacement_dict
          THEN replacement_dict[Head(string)]
          ELSE <<Head(string)>>)
         \o translate_txt(Tail(string), replacement_dict)

xml_ify(parameter_string) ==
    translate_txt(decode_xml_entities(parameter_string), XML_ESCAPE_MAP)

\* the most pieces of a parameter string
MaxPieces == 3

\* the pieces: the characters of XML_ESCAPE_MAP, what it puts for them,
\* and the tail of an entity
Pieces ==
    {<<c>> : c \in DOMAIN XML_ESCAPE_MAP}
    \cup {XML_ESCAPE_MAP[c] : c \in DOMAIN XML_ESCAPE_MAP}
    \cup {<<"a">>, Tail(amp), Tail(lt)}

RECURSIVE Concat(_)
Concat(ps) == IF ps = <<>> THEN <<>> ELSE Head(ps) \o Concat(Tail(ps))

ParameterStrings == {Concat(ps) : ps \in UNION {[1..n -> Pieces] : n \in 0..MaxPieces}}

InitXml ==
    /\ MergeIdle
    /\ RenderIdle
    /\ TreeIdle
    /\ tpc = "static"
    /\ orient = "none"
    /\ offset = <<>>
    /\ inst_name = <<>>
    /\ cell_name = <<>>
    /\ op = "none"
    /\ arg = <<>>
    /\ result = <<>>

XmlIfy ==
    /\ tpc = "static"
    /\ \E parameter_string \in ParameterStrings :
           /\ tpc' = "returned"
           /\ op' = "xml_ify"
           /\ arg' = parameter_string
           /\ result' = xml_ify(parameter_string)
    /\ UNCHANGED <<orient, offset, inst_name, cell_name>>
    /\ UNCHANGED <<mergeVars, renderVars, treeVars>>

\* xml_ify of what xml_ify returned
XmlIfyAgain ==
    /\ Called("xml_ify")
    /\ tpc' = "returned twice"
    /\ result' = xml_ify(result)
    /\ UNCHANGED <<orient, offset, inst_name, cell_name, op, arg>>
    /\ UNCHANGED <<mergeVars, renderVars, treeVars>>

NextXml == XmlIfy \/ XmlIfyAgain

SpecXml == InitXml /\ [][NextXml]_vars

\* C27: xml_ify of what xml_ify returned for a string is what it returned
C27_NeverEscapesTwice ==
    (tpc = "returned twice" /\ op = "xml_ify") => result = xml_ify(arg)

-----------------------------------------------------------------------------
(* merge_lines: termination.  Once called the function runs on by itself,  *)
(* one step after the other; the caller's steps are under no obligation.   *)

MergeRun ==
    \/ OuterSkip
    \/ OuterEmpty
    \/ OuterStart
    \/ ScanStep
    \/ RoundAgain
    \/ ChainDone
    \/ Return

SpecMergeFair == SpecMerge /\ WF_vars(MergeRun)

Running == pc \in {"outer", "scan"}

\* C28: merge_lines, once called, returns; a round of the `loop` that is
\* followed by another has marked a line processed that was not, no mark is
\* taken back, and the rounds for one chain are at most as many as the
\* lines; at the return every line is marked and is one of the chains as
\* they started, one of the lines fused into a chain or an empty line
C28_Terminates ==
    /\ Running ~> Done
    /\ [][(pc = "scan" /\ merged_this_round' /\ ~merged_this_round)
              => \E k \in 1..Len(lines) : ~processed[k] /\ processed'[k]]_vars
    /\ [][(pc = "scan" /\ rounds' = rounds + 1) => merged_this_round]_vars
    /\ [][(Running /\ Running')
              => \A k \in 1..Len(lines) : processed[k] => processed'[k]]_vars
    /\ [](pc = "scan" => rounds <= Len(lines))
    /\ [](Done => /\ \A k \in 1..Len(processed) : processed[k]
                  /\ Len(lines) = Len(merged) + Len(fusions)
                                      + Cardinality({k \in 1..Len(lines) : lines[k] = <<>>}))

\* three lines, one of them empty: the chain of the first is in its second
\* round, the last line fused into it in the first
C28_Witness ==
    /\ pc = "scan"
    /\ lines = <<<<1, 2>>, <<>>, <<2, 3>>>>
    /\ rounds = 2
    /\ current_line = <<1, 2, 3>>
    /\ processed = <<FALSE, FALSE, TRUE>>

====
